---- MODULE Spec2Model ----
(***************************************************************************)
(* Model of the iiko (POS) integration of kaif-table:                      *)
(*   server/src/services/iikoService.ts  - IikoService (session, reports)  *)
(*   server/src/routes/iiko.ts           - /settings and /sync handlers    *)
(*                                                                         *)
(* Every await of a handler is a suspension point of the Node event loop,  *)
(* so a handler is a sequence of steps, one per awaited call, and steps of *)
(* different requests interleave.                                          *)
(*                                                                         *)
(* Instants are integers: milliseconds since the epoch (UTC) for sale      *)
(* timestamps, minutes for the session clock.  A calendar date string      *)
(* 'YYYY-MM-DD' is a day number; a zone-less date-time string is a pair    *)
(* of a day number and the milliseconds since local midnight.              *)
(***************************************************************************)
EXTENDS Integers, Sequences, FiniteSets, Bags, TLC

\* ----- bounds of the model ----------------------------------------------
MaxSyncs == 2          \* sync requests started in one behaviour
MaxSaves == 3          \* save-settings requests started in one behaviour
MaxRows == 2           \* rows of a pivot response handed to the parser
MaxNow == 12           \* last minute of the session clock
MaxLogins == 3         \* login requests one instance sends in one behaviour
NumDays == 2           \* calendar days a request or a sale can name
MaxBlocks == 52        \* line-item blocks of a generated daily-report body

\* ----- values -------------------------------------------------------------
None == << >>          \* null / undefined
Some(x) == <<x>>
Val(o) == o[1]

HOUR == 60 * 60 * 1000
DAY == 24 * HOUR
Days == 1..NumDays
Reqs == {"r1", "r2"}
Savers == {"s1", "s2"}
TzOffsets == {0 - 5 * HOUR, 0, 7 * HOUR}   \* local time minus UTC, process TZ

\* ----- JavaScript values --------------------------------------------------
\* Strings are sequences of characters.
RECURSIVE TrimLeft(_)
TrimLeft(str) ==
  IF str # << >> /\ Head(str) = " " THEN TrimLeft(Tail(str)) ELSE str

RECURSIVE TrimRight(_)
TrimRight(str) ==
  IF str # << >> /\ str[Len(str)] = " "
  THEN TrimRight(SubSeq(str, 1, Len(str) - 1)) ELSE str

Trim(str) == TrimRight(TrimLeft(str))

\* A value carries its type: undefined, null, a number (an integer, or NaN),
\* a string, an array.  A date-time string 'YYYY-MM-DDTHH:MM:SS.mmm' is kept
\* as its day number and the milliseconds since midnight.
Undefined == <<"undefined">>
Null == <<"null">>
NaN == <<"NaN">>
Num(n) == <<"number", n>>
Str(cs) == <<"string", cs>>
DateStr(d, ms) == <<"string", <<"date", d, ms>>>>
Arr(xs) == <<"array", xs>>

IsStr(v) == v[1] = "string"
IsNum(v) == v[1] = "number"
IsDateStr(v) == IsStr(v) /\ v[2] # << >> /\ v[2][1] = "date"

\* ToBoolean: undefined, null, NaN, 0 and '' are falsy
Truthy(v) == v \notin {Undefined, Null, NaN, Num(0), Str(<< >>)}

\* a || b
Or(a, b) == IF Truthy(a) THEN a ELSE b

\* row[key]: a row is a function from the keys it has to values
Get(row, key) == IF key \in DOMAIN row THEN row[key] ELSE Undefined

DigitChars == <<"0", "1", "2", "3", "4", "5", "6", "7", "8", "9">>
IsDigit(c) == \E i \in 1..10 : DigitChars[i] = c
DigitVal(c) == (CHOOSE i \in 1..10 : DigitChars[i] = c) - 1

RECURSIVE DigitPrefix(_)
DigitPrefix(cs) ==
  IF cs # << >> /\ IsDigit(Head(cs))
  THEN <<Head(cs)>> \o DigitPrefix(Tail(cs)) ELSE << >>

RECURSIVE DigitsToInt(_)
DigitsToInt(ds) ==
  IF ds = << >> THEN 0
  ELSE 10 * DigitsToInt(SubSeq(ds, 1, Len(ds) - 1)) + DigitVal(ds[Len(ds)])

RECURSIVE IntToDigits(_)
IntToDigits(n) ==
  IF n < 10 THEN <<DigitChars[n + 1]>>
  ELSE IntToDigits(n \div 10) \o <<DigitChars[(n % 10) + 1]>>

\* String(v)
String(v) ==
  IF IsStr(v) THEN v[2]
  ELSE IF IsNum(v)
  THEN IF v[2] < 0 THEN <<"-">> \o IntToDigits(0 - v[2]) ELSE IntToDigits(v[2])
  ELSE IF v = NaN THEN <<"N", "a", "N">>
  ELSE IF v = Null THEN <<"n", "u", "l", "l">>
  ELSE <<"u", "n", "d", "e", "f", "i", "n", "e", "d">>

\* parseFloat(v): the argument as a string, leading blanks skipped, an
\* optional sign, then the longest run of digits; NaN when there is none.
\* (It is applied to the values of the measure keys; fractions, exponents
\* and date strings are not among them in this model.)
parseFloat(v) ==
  LET t == TrimLeft(String(v))
      signed == t # << >> /\ Head(t) \in {"-", "+"}
      ds == DigitPrefix(IF signed THEN Tail(t) ELSE t)
  IN IF ds = << >> THEN NaN
     ELSE IF signed /\ Head(t) = "-" THEN Num(0 - DigitsToInt(ds))
     ELSE Num(DigitsToInt(ds))

\* a - b and a + b on numbers
Minus(a, b) == IF a = NaN \/ b = NaN THEN NaN ELSE Num(a[2] - b[2])
Plus(a, b) == IF a = NaN \/ b = NaN THEN NaN ELSE Num(a[2] + b[2])

\* ----- JavaScript Date parsing ------------------------------------------
\* new Date('YYYY-MM-DD'): a date-only string is UTC midnight.
DateOnly(d) == d * DAY

\* new Date('YYYY-MM-DDTHH:MM:SS[.mmm]'): a zone-less date-time is local time.
DateTimeLocal(d, ms, z) == d * DAY + ms - z

\* the suffix 'T23:59:59' the handlers append to dateTo
EndOfDaySuffix == 23 * HOUR + 59 * 60000 + 59 * 1000

\* ----- the POS server's sales -------------------------------------------
\* The sales the POS server can hold: the local day and time of day the
\* order was opened, and the measures and dimensions of the line.
PosData ==
  << [day |-> 1, ms |-> 3 * HOUR, gross |-> 1000, discount |-> 100,
      quantity |-> 2, order |-> 101, dish |-> <<"a">>,
      category |-> <<"B", "A", "R">>],
     [day |-> 1, ms |-> EndOfDaySuffix + 500, gross |-> 500, discount |-> 0,
      quantity |-> 1, order |-> 102, dish |-> <<"b">>,
      category |-> <<"B", "A", "R">>] >>

VARIABLES
  tz,         \* time zone offset of the server process
  pos,        \* indexes of PosData the POS server holds
  settings,   \* table iikoSettings: sequence of rows in id order
  sales,      \* table iikoSale: bag of rows
  sync,       \* per request slot: the state of POST /sync
  save,       \* per saver slot: the state of POST /settings
  started,    \* number of sync requests started
  saves,      \* number of save requests started
  lastRun,    \* history: range and stored rows at the end of the last
              \* successful sync that ran alone
  now,        \* session clock, minutes
  inst,       \* one IikoService instance: [token, tokenExpiry]
  call,       \* the call in progress on inst
  ret,        \* the last completed call on inst
  logins,     \* number of login requests inst has sent
  body,       \* a response body handed to parseOlapResponse
  report,     \* what parseOlapResponse returned for body
  mapped,     \* the createMany data built from report
  rev,        \* the state of a GET /revenue request
  top,        \* the state of a GET /top-items request
  xml,        \* the body of a daily-report response
  daily       \* what getDailyReport returned for xml

syncVars == <<tz, pos, settings, sales, sync, save, started, saves, lastRun>>
sessVars == <<now, inst, call, ret, logins>>
pureVars == <<body, report, mapped, rev, top, xml, daily>>
vars == <<tz, pos, settings, sales, sync, save, started, saves, lastRun,
          now, inst, call, ret, logins, body, report, mapped, rev, top,
          xml, daily>>

\* ----- IikoService: session ---------------------------------------------
\* token cache lifetime: new Date(Date.now() + 10 * 60 * 1000), in minutes
TokenCacheMinutes == 10

NewService == [token |-> None, tokenExpiry |-> None]

\* the cache test without the expiry comparison
TokenValid_IgnoresExpiry(s, t) ==
  /\ s.token # None
  /\ s.tokenExpiry # None

\* if (this.token && this.tokenExpiry && new Date() < this.tokenExpiry)
TokenValid(s, t) ==
  /\ s.token # None
  /\ s.tokenExpiry # None
  /\ t < Val(s.tokenExpiry)

\* a login that caches the token and leaves the expiry as it was
LoginOk_KeepsExpiry(s, t, tok) ==
  [token |-> Some(tok), tokenExpiry |-> s.tokenExpiry]

\* this.token = response.data; this.tokenExpiry = now + 10 min
LoginOk(s, t, tok) ==
  [token |-> Some(tok), tokenExpiry |-> Some(t + TokenCacheMinutes)]

\* a catch that resets the cache
LoginFailed_Clears(s) == [token |-> None, tokenExpiry |-> None]

\* the catch of authenticate touches neither field
LoginFailed(s) == s

\* error.response?.data || error.message || 'Unknown error'
ErrorDetail(e) ==
  IF e.data # None /\ Val(e.data) # "" THEN Val(e.data)
  ELSE IF e.message # "" THEN e.message
  ELSE "Unknown error"

AuthError(e) == <<"Failed to authenticate with iiko server: ", ErrorDetail(e)>>
FetchError(e) == <<"Failed to fetch sales report from iiko: ", ErrorDetail(e)>>

\* errors the HTTP client can throw
UpstreamErrors ==
  { [data |-> Some("denied"), message |-> "status 401"],
    [data |-> None, message |-> "timeout"],
    [data |-> None, message |-> ""] }

\* logout: if (!this.token) return
LogoutSkips(s) == s.token = None

\* a finally block that forgets the expiry
LogoutClear_TokenOnly(s) == [s EXCEPT !.token = None]

\* logout: finally { this.token = null; this.tokenExpiry = null }
LogoutClear(s) == [token |-> None, tokenExpiry |-> None]

\* ----- IikoService: pivot report ----------------------------------------
\* filters 'OpenDate.Typed': DateRange from..to, includeLow, includeHigh:
\* the rows the POS server answers with, in the server's order.
PivotRow(sale) ==
  [ OpenTime |-> DateStr(sale.day, sale.ms),
    DishSumInt |-> Num(sale.gross),
    DishDiscountSumInt |-> Num(sale.discount),
    DishAmountInt |-> Num(sale.quantity),
    OrderNum |-> Num(sale.order),
    DishId |-> Str(sale.dish),
    DishName |-> Str(sale.dish),
    DishCategory |-> Str(sale.category) ]

PosResponse(held, df, dt) ==
  LET idx == [i \in 1..Len(PosData) |-> i]
      hit == SelectSeq(idx, LAMBDA i : /\ i \in held
                                       /\ PosData[i].day >= df
                                       /\ PosData[i].day <= dt)
  IN [data |-> Arr([i \in 1..Len(hit) |-> PivotRow(PosData[hit[i]])])]

\* the aliases of each logical field, in the order the parser tries them
GrossKeys == <<"DishSumInt", "Sum">>
DiscountKeys == <<"DishDiscountSumInt", "Discount">>
QuantityKeys == <<"DishAmountInt", "Amount">>
DishIdKeys == <<"DishId", "Dish.Id">>
DishNameKeys == <<"DishName", "Dish.Name">>
DishCodeKeys == <<"DishCode", "Dish.Code">>
DishCategoryKeys == <<"DishCategory", "Dish.Category">>
DishCategoryIdKeys == <<"DishCategory.Id">>
DishGroupKeys == <<"DishGroup", "Dish.Group">>
DishGroupIdKeys == <<"DishGroup.Id">>
OrderNumKeys == <<"OrderNum", "Order.Number">>
OpenTimeKeys == <<"OpenTime", "CloseTime", "OpenDate">>
DepartmentIdKeys == <<"Department.Id">>
DepartmentNameKeys == <<"Department", "Department.Name">>

\* row[k1] || row[k2] || ... || default
RECURSIVE Pick(_, _, _)
Pick(row, keys, default) ==
  IF keys = << >> THEN default
  ELSE Or(Get(row, Head(keys)), Pick(row, Tail(keys), default))

\* the body of the loop of parseOlapResponse: NET = GROSS - DISCOUNT
ParseOlapRow(row) ==
  LET grossAmount == parseFloat(Pick(row, GrossKeys, Num(0)))
      discount == parseFloat(Pick(row, DiscountKeys, Num(0)))
      netAmount == Minus(grossAmount, discount)
  IN [ dishId |-> Pick(row, DishIdKeys, Str(<< >>)),
       dishName |-> Pick(row, DishNameKeys, Str(<< >>)),
       dishCode |-> Pick(row, DishCodeKeys, Str(<< >>)),
       dishCategory |-> Pick(row, DishCategoryKeys, Str(<< >>)),
       dishCategoryId |-> Pick(row, DishCategoryIdKeys, Str(<< >>)),
       dishGroup |-> Pick(row, DishGroupKeys, Str(<< >>)),
       dishGroupId |-> Pick(row, DishGroupIdKeys, Str(<< >>)),
       quantity |-> parseFloat(Pick(row, QuantityKeys, Num(0))),
       amount |-> netAmount,
       discountSum |-> discount,
       orderNum |-> Pick(row, OrderNumKeys, Str(<< >>)),
       openTime |-> Pick(row, OpenTimeKeys, Str(<< >>)),
       departmentId |-> Pick(row, DepartmentIdKeys, Str(<< >>)),
       departmentName |-> Pick(row, DepartmentNameKeys, Str(<< >>)) ]

\* totalGrossAmount += grossAmount
RECURSIVE SumGross(_)
SumGross(rows) ==
  IF rows = << >> THEN Num(0)
  ELSE Plus(SumGross(SubSeq(rows, 1, Len(rows) - 1)),
            parseFloat(Pick(rows[Len(rows)], GrossKeys, Num(0))))

\* totalDiscount += discount
RECURSIVE SumDiscount(_)
SumDiscount(rows) ==
  IF rows = << >> THEN Num(0)
  ELSE Plus(SumDiscount(SubSeq(rows, 1, Len(rows) - 1)),
            parseFloat(Pick(rows[Len(rows)], DiscountKeys, Num(0))))

\* totalQuantity += item.quantity
RECURSIVE SumQuantity(_)
SumQuantity(rows) ==
  IF rows = << >> THEN Num(0)
  ELSE Plus(SumQuantity(SubSeq(rows, 1, Len(rows) - 1)),
            ParseOlapRow(rows[Len(rows)]).quantity)

\* const rows = data.data || data.rows || []
ResponseRows(data) == Pick(data, <<"data", "rows">>, Arr(<< >>))[2]

ParseOlapResponse(data) ==
  LET rows == ResponseRows(data)
  IN [ data |-> [i \in 1..Len(rows) |-> ParseOlapRow(rows[i])],
       summary |-> [ totalAmount |-> Minus(SumGross(rows), SumDiscount(rows)),
                     totalQuantity |-> SumQuantity(rows),
                     totalDiscount |-> SumDiscount(rows) ] ]

\* ----- table iikoSale ------------------------------------------------------
\* new Date(item.openTime) in the process time zone: the instant, or the
\* Invalid Date, whose time value is NaN
InvalidDate == NaN

NewDate(v, z) ==
  IF IsDateStr(v) THEN DateTimeLocal(v[2][2], v[2][3], z) ELSE InvalidDate

\* a mapping that stores null for a blank category as well
ToSaleRow_NullCategory(item, z) ==
  [ dishId |-> Or(item.dishId, Str(<< >>)),
    dishName |-> Or(item.dishName, Str(<< >>)),
    dishCode |-> Or(item.dishCode, Null),
    dishCategory |-> Or(item.dishCategory, Null),
    dishCategoryId |-> Or(item.dishCategoryId, Null),
    dishGroup |-> Or(item.dishGroup, Null),
    dishGroupId |-> Or(item.dishGroupId, Null),
    quantity |-> Or(item.quantity, Num(0))[2],
    amount |-> Or(item.amount, Num(0))[2],
    discountSum |-> Or(item.discountSum, Num(0))[2],
    orderNum |-> Str(String(Or(item.orderNum, Str(<< >>)))),
    openTime |-> NewDate(item.openTime, z),
    departmentId |-> Or(item.departmentId, Null),
    departmentName |-> Or(item.departmentName, Null) ]

\* the data of createMany: report.data.map(item => ({ ... }))
ToSaleRow(item, z) ==
  [ dishId |-> Or(item.dishId, Str(<< >>)),
    dishName |-> Or(item.dishName, Str(<< >>)),
    dishCode |-> Or(item.dishCode, Null),
    dishCategory |-> Or(item.dishCategory, Str(<< >>)),
    dishCategoryId |-> Or(item.dishCategoryId, Null),
    dishGroup |-> Or(item.dishGroup, Null),
    dishGroupId |-> Or(item.dishGroupId, Null),
    quantity |-> Or(item.quantity, Num(0))[2],
    amount |-> Or(item.amount, Num(0))[2],
    discountSum |-> Or(item.discountSum, Num(0))[2],
    orderNum |-> Str(String(Or(item.orderNum, Str(<< >>)))),
    openTime |-> NewDate(item.openTime, z),
    departmentId |-> Or(item.departmentId, Null),
    departmentName |-> Or(item.departmentName, Null) ]

\* Prisma rejects a row whose DateTime field is an Invalid Date
Storable(items, z) ==
  \A i \in 1..Len(items) : IsDateStr(items[i].openTime)

\* where openTime: { gte: new Date(dateFrom), lte: new Date(dateTo + 'T23:59:59') }
InDeleteRange(row, df, dt, z) ==
  /\ row.openTime >= DateOnly(df)
  /\ row.openTime <= DateTimeLocal(dt, EndOfDaySuffix, z)

\* a delete that removes nothing
DeleteMany_KeepsAll(tbl, df, dt, z) == tbl

DeleteMany(tbl, df, dt, z) ==
  [x \in {y \in DOMAIN tbl : ~InDeleteRange(y, df, dt, z)} |-> tbl[x]]

RECURSIVE SeqToBag(_)
SeqToBag(s) ==
  IF s = << >> THEN EmptyBag ELSE SetToBag({Head(s)}) (+) SeqToBag(Tail(s))

CreateMany(tbl, items, z) ==
  tbl (+) SeqToBag([i \in 1..Len(items) |-> ToSaleRow(items[i], z)])

\* ----- table iikoSettings --------------------------------------------------
\* a lookup that ignores the isActive column
FindFirstActive_AnyRow(tbl) == IF tbl = << >> THEN None ELSE Some(Head(tbl))

\* findFirst({ where: { isActive: true } })
FindFirstActive(tbl) ==
  LET act == SelectSeq(tbl, LAMBDA row : row.isActive)
  IN IF act = << >> THEN None ELSE Some(Head(act))

\* findFirst()
FindFirst(tbl) == IF tbl = << >> THEN None ELSE Some(Head(tbl))

\* update({ where: { id }, data: { lastSyncAt: new Date() } })
UpdateLastSync(tbl, id, t) ==
  [i \in 1..Len(tbl) |->
     IF tbl[i].id = id THEN [tbl[i] EXCEPT !.lastSyncAt = Some(t)] ELSE tbl[i]]

HasId(tbl, id) == \E i \in 1..Len(tbl) : tbl[i].id = id

\* ----- IikoService methods as functions of the instance ------------------
\* the plain-text token body: the POS server issues a new token per login
IssueToken(t) == <<"token", t>>

\* what axios.get on /resto/api/auth can do at time t
LoginOutcomes(t) ==
  {[ok |-> TRUE, token |-> IssueToken(t), error |-> None]}
  \cup {[ok |-> FALSE, token |-> << >>, error |-> Some(e)] : e \in UpstreamErrors}

\* what axios.post on /resto/api/v2/reports/olap can do
FetchOutcomes ==
  {[ok |-> TRUE, error |-> None]}
  \cup {[ok |-> FALSE, error |-> Some(e)] : e \in UpstreamErrors}

\* authenticate(): t0 is the clock at the cache test, t1 at the response
Authenticate(s, t0, t1, o) ==
  IF TokenValid(s, t0)
  THEN [svc |-> s, net |-> FALSE, raised |-> FALSE,
        value |-> s.token, error |-> None]
  ELSE IF o.ok
  THEN [svc |-> LoginOk(s, t1, o.token), net |-> TRUE, raised |-> FALSE,
        value |-> Some(o.token), error |-> None]
  ELSE [svc |-> LoginFailed(s), net |-> TRUE, raised |-> TRUE,
        value |-> None, error |-> Some(AuthError(Val(o.error)))]

\* logout(): netOk is the fate of axios.get on /resto/api/logout
Logout(s, netOk) ==
  IF LogoutSkips(s)
  THEN [svc |-> s, net |-> FALSE, raised |-> FALSE]
  ELSE [svc |-> LogoutClear(s), net |-> TRUE, raised |-> FALSE]

\* ----- POST /sync ----------------------------------------------------------
\* A slot holds the request's position (pc), its inputs, the service it
\* created, the report, and the response (status; failedAt names the step
\* whose error the catch reported).  logoutCalls counts calls of
\* service.logout(), posCalls the requests sent to the POS server; steps
\* lists the requests and queries the handler has issued, in order.
\* The record of a finished request is kept until another request takes a step.
\* History: solo - no other sync has been in flight since this one started;
\* snap - the stored rows when it started; rerun - it started from the rows,
\* and with the range, of the last successful sync.
IdleSync ==
  [ pc |-> "idle", dateFrom |-> None, dateTo |-> None, settingsId |-> 0,
    svc |-> NewService, report |-> None, status |-> 0, failedAt |-> "",
    logoutCalls |-> 0, posCalls |-> 0, itemsImported |-> None,
    steps |-> << >>,
    solo |-> TRUE, rerun |-> FALSE, snap |-> EmptyBag ]

InFlight(q) == sync[q].pc \notin {"idle", "done"}

\* res.status(code).json({ message }); at names the step that failed
Respond(rec, code, at) ==
  [rec EXCEPT !.pc = "done", !.status = code, !.failedAt = at]

\* a validation that tests dateFrom only
DatesMissing_FromOnly(df, dt) == df = None

\* if (!dateFrom || !dateTo) return res.status(400)
DatesMissing(df, dt) == df = None \/ dt = None

\* the slot a new request takes: the first one that is free
FreeSlot(r) == ~InFlight(r) /\ (r = "r2" => InFlight("r1"))

\* the record of a finished request lasts until the next step of another one
Forget(r, f) ==
  [q \in Reqs |->
     IF q # r /\ sync[q].pc = "done" THEN IdleSync ELSE f[q]]

SyncStart(r, df, dt) ==
  /\ FreeSlot(r)
  /\ started < MaxSyncs
  /\ started' = started + 1
  /\ LET fresh == [IdleSync EXCEPT !.dateFrom = df, !.dateTo = dt,
                                   !.snap = sales]
     IN IF DatesMissing(df, dt)
        THEN sync' = Forget(r, [sync EXCEPT ![r] =
                        Respond(fresh, 400, "validation")])
        ELSE sync' = [q \in Reqs |->
                        IF q = r
                        THEN [fresh EXCEPT
                                !.pc = "settings",
                                !.solo = \A o \in Reqs \ {r} : ~InFlight(o),
                                !.rerun = /\ lastRun # None
                                          /\ Val(lastRun).dateFrom = Val(df)
                                          /\ Val(lastRun).dateTo = Val(dt)
                                          /\ Val(lastRun).rows = sales]
                        ELSE IF InFlight(q)
                        THEN [sync[q] EXCEPT !.solo = FALSE]
                        ELSE IdleSync]
  /\ UNCHANGED <<tz, pos, settings, sales, save, saves, lastRun>>
  /\ UNCHANGED <<sessVars, pureVars>>

SyncFindSettings(r, ok) ==
  /\ sync[r].pc = "settings"
  /\ LET found == FindFirstActive(settings)
     IN sync' = Forget(r, [sync EXCEPT ![r] =
          IF ~ok THEN Respond(@, 500, "settings")
          ELSE IF found = None
          THEN Respond(@, 400, "config")
          ELSE [@ EXCEPT !.pc = "auth", !.settingsId = Val(found).id,
                         !.svc = NewService]])
  /\ UNCHANGED <<tz, pos, settings, sales, save, started, saves, lastRun>>
  /\ UNCHANGED <<sessVars, pureVars>>

\* getSalesReport: const token = await this.authenticate()
SyncAuth(r) ==
  /\ sync[r].pc = "auth"
  /\ \E o \in LoginOutcomes(now) :
     LET a == Authenticate(sync[r].svc, now, now, o)
         sent == IF a.net THEN 1 ELSE 0
     IN sync' = Forget(r, [sync EXCEPT ![r] =
          IF a.raised
          THEN [Respond(@, 500, "login") EXCEPT
                  !.svc = a.svc, !.posCalls = @ + sent,
                  !.steps = IF a.net THEN Append(@, "login") ELSE @]
          ELSE [@ EXCEPT !.pc = "fetch", !.svc = a.svc, !.posCalls = @ + sent,
                         !.steps = IF a.net THEN Append(@, "login") ELSE @]])
  /\ UNCHANGED <<tz, pos, settings, sales, save, started, saves, lastRun>>
  /\ UNCHANGED <<sessVars, pureVars>>

\* a handler that clears the range before it has the report
SyncFetch_DeletesFirst(r, o) ==
  /\ sync[r].pc = "fetch"
  /\ sales' = DeleteMany(sales, Val(sync[r].dateFrom), Val(sync[r].dateTo), tz)
  /\ sync' = Forget(r, [sync EXCEPT ![r] =
       IF o.ok
       THEN [@ EXCEPT !.pc = "delete", !.posCalls = @ + 1,
                      !.steps = Append(@, "report"),
                      !.report = Some(ParseOlapResponse(
                                   PosResponse(pos, Val(sync[r].dateFrom),
                                               Val(sync[r].dateTo))))]
       ELSE [Respond(@, 500, "fetch") EXCEPT
               !.posCalls = @ + 1, !.steps = Append(@, "report")]])
  /\ UNCHANGED <<tz, pos, settings, save, started, saves, lastRun>>
  /\ UNCHANGED <<sessVars, pureVars>>

\* getSalesReport: axios.post, parseOlapResponse, or the catch that rethrows
SyncFetch(r, o) ==
  /\ sync[r].pc = "fetch"
  /\ sync' = Forget(r, [sync EXCEPT ![r] =
       IF o.ok
       THEN [@ EXCEPT !.pc = "delete", !.posCalls = @ + 1,
                      !.steps = Append(@, "report"),
                      !.report = Some(ParseOlapResponse(
                                   PosResponse(pos, Val(sync[r].dateFrom),
                                               Val(sync[r].dateTo))))]
       ELSE [Respond(@, 500, "fetch") EXCEPT
               !.posCalls = @ + 1, !.steps = Append(@, "report")]])
  /\ UNCHANGED <<tz, pos, settings, sales, save, started, saves, lastRun>>
  /\ UNCHANGED <<sessVars, pureVars>>

\* a handler that goes from the delete straight to the lastSyncAt update
SyncDelete_SkipsInsert(r, ok) ==
  /\ sync[r].pc = "delete"
  /\ IF ok
     THEN /\ sales' = DeleteMany(sales, Val(sync[r].dateFrom),
                                 Val(sync[r].dateTo), tz)
          /\ sync' = Forget(r, [sync EXCEPT
               ![r].pc = "update",
               ![r].steps = Append(@, "delete")])
     ELSE /\ sales' = sales
          /\ sync' = Forget(r, [sync EXCEPT ![r] =
               [Respond(@, 500, "delete") EXCEPT !.steps = Append(@, "delete")]])
  /\ UNCHANGED <<tz, pos, settings, save, started, saves, lastRun>>
  /\ UNCHANGED <<sessVars, pureVars>>

\* prisma.iikoSale.deleteMany
SyncDelete(r, ok) ==
  /\ sync[r].pc = "delete"
  /\ IF ok
     THEN /\ sales' = DeleteMany(sales, Val(sync[r].dateFrom),
                                 Val(sync[r].dateTo), tz)
          /\ sync' = Forget(r, [sync EXCEPT
               ![r].pc = IF Len(Val(sync[r].report).data) > 0
                         THEN "insert" ELSE "update",
               ![r].steps = Append(@, "delete")])
     ELSE /\ sales' = sales
          /\ sync' = Forget(r, [sync EXCEPT ![r] =
               [Respond(@, 500, "delete") EXCEPT !.steps = Append(@, "delete")]])
  /\ UNCHANGED <<tz, pos, settings, save, started, saves, lastRun>>
  /\ UNCHANGED <<sessVars, pureVars>>

\* if (report.data.length > 0) prisma.iikoSale.createMany
SyncInsert(r, ok) ==
  /\ sync[r].pc = "insert"
  /\ IF ok /\ Storable(Val(sync[r].report).data, tz)
     THEN /\ sales' = CreateMany(sales, Val(sync[r].report).data, tz)
          /\ sync' = Forget(r, [sync EXCEPT ![r].pc = "update",
                                            ![r].steps = Append(@, "insert")])
     ELSE /\ sales' = sales
          /\ sync' = Forget(r, [sync EXCEPT ![r] =
               [Respond(@, 500, "insert") EXCEPT !.steps = Append(@, "insert")]])
  /\ UNCHANGED <<tz, pos, settings, save, started, saves, lastRun>>
  /\ UNCHANGED <<sessVars, pureVars>>

\* prisma.iikoSettings.update({ data: { lastSyncAt: new Date() } })
SyncUpdate(r, ok) ==
  /\ sync[r].pc = "update"
  /\ IF ok /\ HasId(settings, sync[r].settingsId)
     THEN /\ settings' = UpdateLastSync(settings, sync[r].settingsId, now)
          /\ sync' = Forget(r, [sync EXCEPT ![r].pc = "logout",
                                            ![r].steps = Append(@, "update")])
     ELSE /\ settings' = settings
          /\ sync' = Forget(r, [sync EXCEPT ![r] =
               [Respond(@, 500, "update") EXCEPT !.steps = Append(@, "update")]])
  /\ UNCHANGED <<tz, pos, sales, save, started, saves, lastRun>>
  /\ UNCHANGED <<sessVars, pureVars>>

\* await service.logout(); res.json({ success: true, ... })
SyncLogout(r, netOk) ==
  /\ sync[r].pc = "logout"
  /\ LET l == Logout(sync[r].svc, netOk)
     IN sync' = Forget(r, [sync EXCEPT ![r] =
          [@ EXCEPT !.pc = "done", !.status = 200, !.svc = l.svc,
                    !.itemsImported = Some(Len(Val(sync[r].report).data)),
                    !.logoutCalls = @ + 1,
                    !.steps = IF l.net THEN Append(@, "logout") ELSE @,
                    !.posCalls = @ + (IF l.net THEN 1 ELSE 0)]])
  /\ lastRun' = IF sync[r].solo
                THEN Some([dateFrom |-> Val(sync[r].dateFrom),
                           dateTo |-> Val(sync[r].dateTo), rows |-> sales])
                ELSE lastRun
  /\ UNCHANGED <<tz, pos, settings, sales, save, started, saves>>
  /\ UNCHANGED <<sessVars, pureVars>>

\* ----- POST /settings ------------------------------------------------------
\* .replace(/\/+$/, '')
RECURSIVE StripSlashes(_)
StripSlashes(str) ==
  IF str # << >> /\ str[Len(str)] = "/"
  THEN StripSlashes(SubSeq(str, 1, Len(str) - 1)) ELSE str

\* rawUrl?.trim().replace(/\/+$/, '')
CleanUrl(raw) == IF raw = None THEN None ELSE Some(StripSlashes(Trim(Val(raw))))

\* rawLogin?.trim()
CleanLogin(raw) == IF raw = None THEN None ELSE Some(Trim(Val(raw)))

\* crypto.createHash('sha1').update(password).digest('hex')
sha1Hash(password) == <<"sha1">> \o password

\* !x for an optional string
Blank(o) == o = None \/ Val(o) = << >>

RawUrls == { None, Some(<<" ", "p", "/", "/", " ">>), Some(<<"/">>) }
RawLogins == { None, Some(<<"a", " ">>) }
RawPasswords == { None, Some(<<"x">>) }

IdleSave ==
  [ pc |-> "idle", serverUrl |-> None, login |-> None, passwordHash |-> None,
    existing |-> None, status |-> 0 ]

SaveStart(s, rawUrl, rawLogin, password) ==
  /\ save[s].pc \in {"idle", "done"}
  /\ saves < MaxSaves
  /\ saves' = saves + 1
  /\ LET serverUrl == CleanUrl(rawUrl)
         login == CleanLogin(rawLogin)
     IN save' = [save EXCEPT ![s] =
          IF Blank(serverUrl) \/ Blank(login) \/ Blank(password)
          THEN [IdleSave EXCEPT !.pc = "done", !.status = 400]
          ELSE [IdleSave EXCEPT !.pc = "find", !.serverUrl = serverUrl,
                                !.login = login,
                                !.passwordHash = Some(sha1Hash(Val(password)))]]
  /\ UNCHANGED <<tz, pos, settings, sales, sync, started, lastRun>>
  /\ UNCHANGED <<sessVars, pureVars>>

\* const existing = await prisma.iikoSettings.findFirst()
SaveFind(s, ok) ==
  /\ save[s].pc = "find"
  /\ save' = [save EXCEPT ![s] =
       IF ok THEN [@ EXCEPT !.pc = "write", !.existing = FindFirst(settings)]
       ELSE [IdleSave EXCEPT !.pc = "done", !.status = 500]]
  /\ UNCHANGED <<tz, pos, settings, sales, sync, started, saves, lastRun>>
  /\ UNCHANGED <<sessVars, pureVars>>

\* a save whose update also clears lastSyncAt
SaveWrite_ClearsLastSync(s, ok) ==
  /\ save[s].pc = "write"
  /\ LET rec == save[s]
         data == [serverUrl |-> Val(rec.serverUrl), login |-> Val(rec.login),
                  passwordHash |-> Val(rec.passwordHash)]
         hit == rec.existing # None /\ HasId(settings, Val(rec.existing).id)
     IN IF ok /\ (rec.existing = None \/ hit)
        THEN /\ settings' =
                  IF rec.existing # None
                  THEN [i \in 1..Len(settings) |->
                          IF settings[i].id = Val(rec.existing).id
                          THEN [settings[i] EXCEPT
                                  !.serverUrl = data.serverUrl,
                                  !.login = data.login,
                                  !.passwordHash = data.passwordHash,
                                  !.isActive = TRUE,
                                  !.lastSyncAt = None]
                          ELSE settings[i]]
                  ELSE Append(settings,
                         [id |-> Len(settings) + 1,
                          serverUrl |-> data.serverUrl, login |-> data.login,
                          passwordHash |-> data.passwordHash,
                          isActive |-> TRUE, lastSyncAt |-> None])
             /\ save' = [save EXCEPT ![s] =
                          [IdleSave EXCEPT !.pc = "done", !.status = 200]]
        ELSE /\ settings' = settings
             /\ save' = [save EXCEPT ![s] =
                          [IdleSave EXCEPT !.pc = "done", !.status = 500]]
  /\ UNCHANGED <<tz, pos, sales, sync, started, saves, lastRun>>
  /\ UNCHANGED <<sessVars, pureVars>>

\* prisma.iikoSettings.update / create, then initIikoService and res.json
SaveWrite(s, ok) ==
  /\ save[s].pc = "write"
  /\ LET rec == save[s]
         data == [serverUrl |-> Val(rec.serverUrl), login |-> Val(rec.login),
                  passwordHash |-> Val(rec.passwordHash)]
         hit == rec.existing # None /\ HasId(settings, Val(rec.existing).id)
     IN IF ok /\ (rec.existing = None \/ hit)
        THEN /\ settings' =
                  IF rec.existing # None
                  THEN [i \in 1..Len(settings) |->
                          IF settings[i].id = Val(rec.existing).id
                          THEN [settings[i] EXCEPT
                                  !.serverUrl = data.serverUrl,
                                  !.login = data.login,
                                  !.passwordHash = data.passwordHash,
                                  !.isActive = TRUE]
                          ELSE settings[i]]
                  ELSE Append(settings,
                         [id |-> Len(settings) + 1,
                          serverUrl |-> data.serverUrl, login |-> data.login,
                          passwordHash |-> data.passwordHash,
                          isActive |-> TRUE, lastSyncAt |-> None])
             /\ save' = [save EXCEPT ![s] =
                          [IdleSave EXCEPT !.pc = "done", !.status = 200]]
        ELSE /\ settings' = settings
             /\ save' = [save EXCEPT ![s] =
                          [IdleSave EXCEPT !.pc = "done", !.status = 500]]
  /\ UNCHANGED <<tz, pos, sales, sync, started, saves, lastRun>>
  /\ UNCHANGED <<sessVars, pureVars>>

\* ----- the sync specification ------------------------------------------------
\* The settings table as an earlier POST /settings left it: one active record
\* that no sync has touched yet.
StoredSettings ==
  << [id |-> 1, serverUrl |-> <<"p">>, login |-> <<"a">>,
      passwordHash |-> sha1Hash(<<"x">>), isActive |-> TRUE,
      lastSyncAt |-> None] >>

IdleRevenue ==
  [pc |-> "idle", dateFrom |-> None, dateTo |-> None, status |-> 0,
   sales |-> << >>, json |-> None]

IdleTop ==
  [pc |-> "idle", dateFrom |-> None, dateTo |-> None, limit |-> Undefined,
   status |-> 0, sales |-> << >>, json |-> None]

PureIdle ==
  /\ body = None
  /\ report = None
  /\ mapped = None
  /\ rev = IdleRevenue
  /\ top = IdleTop
  /\ xml = << >>
  /\ daily = None

SessionIdle ==
  /\ now = 0
  /\ inst = NewService
  /\ call = [op |-> "none"]
  /\ ret = [op |-> "none", raised |-> FALSE]
  /\ logins = 0

\* The same record with isActive false (the column can be cleared in the
\* database; no route does it), and the rows a sync stored before that.
\* The POS server may have dropped its sales since they were stored.
DeactivatedSettings == << [StoredSettings[1] EXCEPT !.isActive = FALSE] >>

StoredSales(held, z) ==
  CreateMany(EmptyBag, ParseOlapResponse(PosResponse(held, 1, NumDays)).data, z)

Init ==
  /\ tz \in TzOffsets
  /\ pos \in SUBSET (1..Len(PosData))
  /\ \/ /\ settings \in {<< >>, StoredSettings}
        /\ sales = EmptyBag
     \/ /\ settings = DeactivatedSettings
        /\ sales = StoredSales(pos, tz)
     \/ /\ settings = StoredSettings
        /\ tz = 0
        /\ pos = {}
        /\ sales = StoredSales(1..Len(PosData), tz)
  /\ sync = [r \in Reqs |-> IdleSync]
  /\ save = [s \in Savers |-> IdleSave]
  /\ started = 0
  /\ saves = 0
  /\ lastRun = None
  /\ SessionIdle
  /\ PureIdle

DateInputs == {None} \cup {Some(d) : d \in Days}

\* the body's { dateFrom, dateTo }: either may be missing; a client that sends
\* both sends a range that does not end before it starts
DateRanges ==
  { d \in DateInputs \X DateInputs :
      (d[1] # None /\ d[2] # None) => Val(d[1]) <= Val(d[2]) }

Next ==
  \/ \E r \in Reqs, d \in DateRanges : SyncStart(r, d[1], d[2])
  \/ \E r \in Reqs, ok \in BOOLEAN : SyncFindSettings(r, ok)
  \/ \E r \in Reqs : SyncAuth(r)
  \/ \E r \in Reqs, o \in FetchOutcomes : SyncFetch(r, o)
  \/ \E r \in Reqs, ok \in BOOLEAN : SyncDelete(r, ok)
  \/ \E r \in Reqs, ok \in BOOLEAN : SyncInsert(r, ok)
  \/ \E r \in Reqs, ok \in BOOLEAN : SyncUpdate(r, ok)
  \/ \E r \in Reqs, ok \in BOOLEAN : SyncLogout(r, ok)

Spec == Init /\ [][Next]_vars

\* ----- the settings specification ------------------------------------------
\* POST /settings requests, interleaved at their awaits, over a table that is
\* empty or holds the record of an earlier sync.
SettingsInit ==
  /\ tz = 0
  /\ pos = {}
  /\ settings \in {<< >>, StoredSettings, UpdateLastSync(StoredSettings, 1, 1)}
  /\ sales = EmptyBag
  /\ sync = [r \in Reqs |-> IdleSync]
  /\ save = [s \in Savers |-> IdleSave]
  /\ started = 0
  /\ saves = 0
  /\ lastRun = None
  /\ SessionIdle
  /\ PureIdle

SettingsNext ==
  \/ \E s \in Savers, u \in RawUrls, l \in RawLogins, p \in RawPasswords :
       SaveStart(s, u, l, p)
  \/ \E s \in Savers, ok \in BOOLEAN : SaveFind(s, ok)
  \/ \E s \in Savers, ok \in BOOLEAN : SaveWrite(s, ok)

SettingsSpec == SettingsInit /\ [][SettingsNext]_vars

\* ----- a sync and a save together --------------------------------------------
\* One POST /sync and one POST /settings, interleaved at their awaits, after
\* the earlier requests have finished: the settings record is the one a save
\* created, never synced or last synced at minute 1.
SyncSaveInit ==
  /\ tz = 0
  /\ pos \in SUBSET (1..Len(PosData))
  /\ settings \in {StoredSettings, UpdateLastSync(StoredSettings, 1, 1)}
  /\ sales = EmptyBag
  /\ sync = [r \in Reqs |-> IdleSync]
  /\ save = [s \in Savers |-> IdleSave]
  /\ started = MaxSyncs - 1
  /\ saves = MaxSaves - 1
  /\ lastRun = None
  /\ SessionIdle
  /\ PureIdle

SyncSaveNext ==
  \/ \E r \in Reqs, d \in DateRanges : SyncStart(r, d[1], d[2])
  \/ \E r \in Reqs, ok \in BOOLEAN : SyncFindSettings(r, ok)
  \/ \E r \in Reqs : SyncAuth(r)
  \/ \E r \in Reqs, o \in FetchOutcomes : SyncFetch(r, o)
  \/ \E r \in Reqs, ok \in BOOLEAN : SyncDelete(r, ok)
  \/ \E r \in Reqs, ok \in BOOLEAN : SyncInsert(r, ok)
  \/ \E r \in Reqs, ok \in BOOLEAN : SyncUpdate(r, ok)
  \/ \E r \in Reqs, ok \in BOOLEAN : SyncLogout(r, ok)
  \/ \E s \in Savers, u \in RawUrls, l \in RawLogins, p \in RawPasswords :
       SaveStart(s, u, l, p)
  \/ \E s \in Savers, ok \in BOOLEAN : SaveFind(s, ok)
  \/ \E s \in Savers, ok \in BOOLEAN : SaveWrite(s, ok)

SyncSaveSpec == SyncSaveInit /\ [][SyncSaveNext]_vars

\* ----- the parser specification ---------------------------------------------
\* parseOlapResponse applied to one response body, then the mapping of its
\* items to createMany data.  A body is an object with a data key, a rows
\* key, both or neither; a row is built from a choice of measure keys and a
\* choice of dimension keys: the current names, the older names, none, a
\* current name with a falsy value beside an older one, and both names.
PlainMeasures ==
  [DishSumInt |-> Num(1000), DishDiscountSumInt |-> Num(100),
   DishAmountInt |-> Num(2)]

MeasureParts ==
  { PlainMeasures,
    [Sum |-> Str(<<"5", "0", "0">>), Amount |-> Str(<<" ", "1">>)],
    [DishSumInt |-> Str(<<"x">>), DishDiscountSumInt |-> Num(50),
     DishAmountInt |-> Str(<<"x">>)],
    [DishSumInt |-> Num(0), Sum |-> Num(700),
     DishDiscountSumInt |-> Num(0), Discount |-> Num(70),
     DishAmountInt |-> Str(<< >>), Amount |-> Num(3)],
    [DishSumInt |-> Num(300), Sum |-> Num(999),
     DishDiscountSumInt |-> Num(30), Discount |-> Num(99),
     DishAmountInt |-> Num(1), Amount |-> Num(9)],
    << >> }

PlainDimensions ==
  [DishId |-> Str(<<"a">>), DishName |-> Str(<<"A">>),
   DishCode |-> Str(<<"7">>), DishCategory |-> Str(<<"B">>),
   DishGroup |-> Str(<<"G">>), OrderNum |-> Num(101),
   OpenTime |-> DateStr(1, 3 * HOUR), Department |-> Str(<<"D">>)]
    @@ ("DishCategory.Id" :> Str(<<"k">>)) @@ ("DishGroup.Id" :> Str(<<"g">>))
    @@ ("Department.Id" :> Str(<<"d">>))

DimensionParts ==
  { PlainDimensions,
    [CloseTime |-> DateStr(1, 4 * HOUR)]
      @@ ("Dish.Id" :> Str(<<"b">>)) @@ ("Dish.Name" :> Str(<<"B">>))
      @@ ("Dish.Code" :> Str(<<"8">>)) @@ ("Dish.Category" :> Str(<<"C">>))
      @@ ("Dish.Group" :> Str(<<"H">>)) @@ ("Order.Number" :> Str(<<"9">>))
      @@ ("Department.Name" :> Str(<<"E">>)),
    [OpenTime |-> DateStr(2, 0)],
    [DishId |-> Str(<< >>), DishName |-> Null, DishCode |-> Null,
     DishCategory |-> Str(<< >>), OrderNum |-> Num(0),
     OpenTime |-> Str(<< >>), CloseTime |-> DateStr(1, 4 * HOUR),
     Department |-> Null]
      @@ ("Dish.Id" :> Str(<<"b">>))
      @@ ("Dish.Category" :> Str(<<"C">>)) @@ ("Order.Number" :> Str(<<"9">>))
      @@ ("DishCategory.Id" :> Null),
    [DishId |-> Str(<<"a">>), DishName |-> Str(<<"A">>),
     OrderNum |-> Num(101), OpenTime |-> DateStr(1, 3 * HOUR),
     CloseTime |-> DateStr(1, 4 * HOUR)]
      @@ ("Dish.Id" :> Str(<<"b">>)) @@ ("Dish.Name" :> Str(<<"B">>))
      @@ ("Order.Number" :> Str(<<"9">>)),
    << >> }

\* every choice of measures with the plain dimensions and with none, and
\* every choice of dimensions with the plain measures
SampleRows ==
  { m @@ d : m \in MeasureParts, d \in {PlainDimensions, << >>} }
  \cup { PlainMeasures @@ d : d \in DimensionParts }

RowSeqs == UNION { [1..n -> SampleRows] : n \in 0..MaxRows }

Bodies ==
  { [data |-> Arr(rows)] : rows \in RowSeqs }
  \cup { [rows |-> Arr(rows)] : rows \in RowSeqs }
  \cup { [data |-> Arr(<< >>), rows |-> Arr(rows)] : rows \in RowSeqs }
  \cup { [total |-> Num(0)] }

ParserInit ==
  /\ tz = 0
  /\ pos = {}
  /\ settings = << >>
  /\ sales = EmptyBag
  /\ sync = [r \in Reqs |-> IdleSync]
  /\ save = [s \in Savers |-> IdleSave]
  /\ started = 0
  /\ saves = 0
  /\ lastRun = None
  /\ SessionIdle
  /\ body \in Bodies
  /\ report = None
  /\ mapped = None
  /\ rev = IdleRevenue
  /\ top = IdleTop
  /\ xml = << >>
  /\ daily = None

\* return this.parseOlapResponse(response.data)
Parse ==
  /\ report = None
  /\ report' = Some(ParseOlapResponse(body))
  /\ UNCHANGED <<body, mapped, rev, top, xml, daily>>
  /\ UNCHANGED <<syncVars, sessVars>>

\* report.data.map(item => ({ ... })), the argument of createMany
MapItems ==
  /\ report # None
  /\ mapped = None
  /\ mapped' = Some([i \in 1..Len(Val(report).data) |->
                      ToSaleRow(Val(report).data[i], tz)])
  /\ UNCHANGED <<body, report, rev, top, xml, daily>>
  /\ UNCHANGED <<syncVars, sessVars>>

ParserNext == Parse \/ MapItems

ParserSpec == ParserInit /\ [][ParserNext]_vars

\* ----- GET /revenue ---------------------------------------------------------
\* sales.reduce((sum, s) => sum + s.amount, 0) and the like
RECURSIVE Reduce(_, _)
Reduce(rows, field) ==
  IF rows = << >> THEN 0
  ELSE Reduce(SubSeq(rows, 1, Len(rows) - 1), field) + rows[Len(rows)][field]

\* new Set(sales.map((s) => s.orderNum))
RECURSIVE OrderSet(_)
OrderSet(rows) ==
  IF rows = << >> THEN {}
  ELSE OrderSet(Tail(rows)) \cup {Head(rows).orderNum}

RECURSIVE Gcd(_, _)
Gcd(a, b) == IF b = 0 THEN a ELSE Gcd(b, a % b)

Abs(n) == IF n < 0 THEN 0 - n ELSE n

\* a / b for b > 0, as a fraction in lowest terms
Divide(a, b) ==
  LET g == Gcd(Abs(a), b)
  IN [num |-> a \div g, den |-> b \div g]

\* an average check that divides by the number of rows
AverageCheck_PerRow(rows) ==
  IF Len(rows) > 0
  THEN Divide(Reduce(rows, "amount"), Len(rows)) ELSE [num |-> 0, den |-> 1]

\* orderCount > 0 ? totalRevenue / orderCount : 0
AverageCheck(rows) ==
  IF Cardinality(OrderSet(rows)) > 0
  THEN Divide(Reduce(rows, "amount"), Cardinality(OrderSet(rows)))
  ELSE [num |-> 0, den |-> 1]

\* the index of key in a Map's entries, 0 when it has none
IndexOf(entries, field, key) ==
  IF \E i \in 1..Len(entries) : entries[i][field] = key
  THEN CHOOSE i \in 1..Len(entries) : entries[i][field] = key
  ELSE 0

\* categoryMap after the loop: the entries in insertion order
RECURSIVE CategoryMap(_)
CategoryMap(rows) ==
  IF rows = << >> THEN << >>
  ELSE LET m == CategoryMap(SubSeq(rows, 1, Len(rows) - 1))
           sale == rows[Len(rows)]
           at == IndexOf(m, "category", sale.dishCategory)
       IN IF at = 0
          THEN Append(m, [category |-> sale.dishCategory,
                          amount |-> sale.amount, quantity |-> sale.quantity])
          ELSE [m EXCEPT ![at].amount = @ + sale.amount,
                         ![at].quantity = @ + sale.quantity]

\* sale.openTime.toISOString().split('T')[0]: the UTC calendar day
IsoDay(t) == t \div DAY

\* sale.openTime.getHours(): the hour of day in the process time zone
GetHours(t, z) == ((t + z) % DAY) \div HOUR

\* dailyMap / hourMap after the loop: a Map from a key of the sale to the sum
\* of amount, as entries in insertion order; keys[i] is the key of rows[i]
RECURSIVE AmountMap(_, _)
AmountMap(rows, keys) ==
  IF rows = << >> THEN << >>
  ELSE LET n == Len(rows)
           m == AmountMap(SubSeq(rows, 1, n - 1), SubSeq(keys, 1, n - 1))
           at == IndexOf(m, "key", keys[n])
       IN IF at = 0
          THEN Append(m, [key |-> keys[n], amount |-> rows[n].amount])
          ELSE [m EXCEPT ![at].amount = @ + rows[n].amount]

\* Array.prototype.sort((a, b) => b.amount - a.amount): stable, descending
RECURSIVE InsertDesc(_, _, _)
InsertDesc(sorted, x, field) ==
  IF sorted = << >> THEN <<x>>
  ELSE IF x[field] > sorted[Len(sorted)][field]
  THEN Append(InsertDesc(SubSeq(sorted, 1, Len(sorted) - 1), x, field),
              sorted[Len(sorted)])
  ELSE Append(sorted, x)

RECURSIVE SortDesc(_, _)
SortDesc(xs, field) ==
  IF xs = << >> THEN << >>
  ELSE InsertDesc(SortDesc(SubSeq(xs, 1, Len(xs) - 1), field), xs[Len(xs)], field)

\* Array.prototype.sort((a, b) => a.hour - b.hour), and the same order for
\* a.date.localeCompare(b.date) on 'YYYY-MM-DD' strings: stable, ascending
RECURSIVE InsertAsc(_, _, _)
InsertAsc(sorted, x, field) ==
  IF sorted = << >> THEN <<x>>
  ELSE IF x[field] < sorted[Len(sorted)][field]
  THEN Append(InsertAsc(SubSeq(sorted, 1, Len(sorted) - 1), x, field),
              sorted[Len(sorted)])
  ELSE Append(sorted, x)

RECURSIVE SortAsc(_, _)
SortAsc(xs, field) ==
  IF xs = << >> THEN << >>
  ELSE InsertAsc(SortAsc(SubSeq(xs, 1, Len(xs) - 1), field), xs[Len(xs)], field)

\* a byDay that keeps the Map's insertion order
ByDay_Unsorted(rows) ==
  LET m == AmountMap(rows, [i \in 1..Len(rows) |-> IsoDay(rows[i].openTime)])
  IN [i \in 1..Len(m) |-> [date |-> m[i].key, amount |-> m[i].amount]]

\* byDay: Array.from(dailyMap.entries()).map(...).sort(...)
ByDay(rows) ==
  LET m == AmountMap(rows, [i \in 1..Len(rows) |-> IsoDay(rows[i].openTime)])
  IN SortAsc([i \in 1..Len(m) |-> [date |-> m[i].key, amount |-> m[i].amount]],
             "date")

\* byHour
ByHour(rows, z) ==
  LET m == AmountMap(rows, [i \in 1..Len(rows) |-> GetHours(rows[i].openTime, z)])
  IN SortAsc([i \in 1..Len(m) |-> [hour |-> m[i].key, amount |-> m[i].amount]],
             "hour")

\* a response whose byCategory keeps the Map's insertion order
RevenueJson_CategoriesUnsorted(rows, z) ==
  [ totalRevenue |-> Reduce(rows, "amount"),
    totalQuantity |-> Reduce(rows, "quantity"),
    orderCount |-> Cardinality(OrderSet(rows)),
    averageCheck |-> AverageCheck(rows),
    byCategory |-> CategoryMap(rows),
    byDay |-> ByDay(rows),
    byHour |-> ByHour(rows, z) ]

\* the body of res.json({ ... }) of GET /revenue
RevenueJson(rows, z) ==
  [ totalRevenue |-> Reduce(rows, "amount"),
    totalQuantity |-> Reduce(rows, "quantity"),
    orderCount |-> Cardinality(OrderSet(rows)),
    averageCheck |-> AverageCheck(rows),
    byCategory |-> SortDesc(CategoryMap(rows), "amount"),
    byDay |-> ByDay(rows),
    byHour |-> ByHour(rows, z) ]

\* prisma.iikoSale.findMany({ where: { openTime: { gte, lte } } }): the rows
\* the filter matches, in any order (the query has no orderBy)
RECURSIVE BagToSeqs(_)
BagToSeqs(bag) ==
  IF bag = EmptyBag THEN {<< >>}
  ELSE UNION { { <<x>> \o rest : rest \in BagToSeqs(bag (-) SetToBag({x})) }
               : x \in BagToSet(bag) }

FindMany(tbl, df, dt, z) ==
  BagToSeqs([x \in {y \in DOMAIN tbl : InDeleteRange(y, df, dt, z)} |-> tbl[x]])

\* const { dateFrom, dateTo } = req.query; if (!dateFrom || !dateTo) 400
RevenueStart(df, dt) ==
  /\ rev.pc = "idle"
  /\ rev' = IF DatesMissing(df, dt)
            THEN [IdleRevenue EXCEPT !.pc = "done", !.dateFrom = df,
                                     !.dateTo = dt, !.status = 400]
            ELSE [IdleRevenue EXCEPT !.pc = "find", !.dateFrom = df,
                                     !.dateTo = dt]
  /\ UNCHANGED <<body, report, mapped, top, xml, daily>>
  /\ UNCHANGED <<syncVars, sessVars>>

\* await prisma.iikoSale.findMany, the totals and groupings, res.json; or
\* the catch: 500
RevenueFind(ok) ==
  /\ rev.pc = "find"
  /\ IF ok
     THEN \E rows \in FindMany(sales, Val(rev.dateFrom), Val(rev.dateTo), tz) :
            rev' = [rev EXCEPT !.pc = "done", !.status = 200, !.sales = rows,
                               !.json = Some(RevenueJson(rows, tz))]
     ELSE rev' = [rev EXCEPT !.pc = "done", !.status = 500]
  /\ UNCHANGED <<body, report, mapped, top, xml, daily>>
  /\ UNCHANGED <<syncVars, sessVars>>

\* The lines earlier syncs stored: two lines of one order, one of them of a
\* dish without a category, and lines of two more orders on the next day,
\* one early in the morning and one late in the evening.
SoldLines ==
  << [day |-> 1, ms |-> 3 * HOUR, gross |-> 1000, discount |-> 100,
      quantity |-> 2, order |-> 101, dish |-> <<"a">>,
      category |-> <<"B", "A", "R">>],
     [day |-> 1, ms |-> 12 * HOUR, gross |-> 500, discount |-> 0,
      quantity |-> 1, order |-> 101, dish |-> <<"b">>,
      category |-> << >>],
     [day |-> 2, ms |-> 3 * HOUR, gross |-> 1600, discount |-> 0,
      quantity |-> 2, order |-> 102, dish |-> <<"c">>,
      category |-> <<"K">>],
     [day |-> 2, ms |-> 23 * HOUR, gross |-> 300, discount |-> 0,
      quantity |-> 1, order |-> 103, dish |-> <<"c">>,
      category |-> <<"K">>] >>

SoldResponse(held) ==
  LET idx == [i \in 1..Len(SoldLines) |-> i]
      hit == SelectSeq(idx, LAMBDA i : i \in held)
  IN [data |-> Arr([i \in 1..Len(hit) |-> PivotRow(SoldLines[hit[i]])])]

RevenueInit ==
  /\ tz \in TzOffsets
  /\ pos = {}
  /\ settings = StoredSettings
  /\ \E held \in SUBSET (1..Len(SoldLines)) :
       sales = CreateMany(EmptyBag, ParseOlapResponse(SoldResponse(held)).data, tz)
  /\ sync = [r \in Reqs |-> IdleSync]
  /\ save = [s \in Savers |-> IdleSave]
  /\ started = 0
  /\ saves = 0
  /\ lastRun = None
  /\ SessionIdle
  /\ PureIdle

RevenueNext ==
  \/ \E df, dt \in DateInputs : RevenueStart(df, dt)
  \/ \E ok \in BOOLEAN : RevenueFind(ok)

RevenueSpec == RevenueInit /\ [][RevenueNext]_vars

\* ----- GET /top-items --------------------------------------------------------
\* parseInt(v): the argument as a string, leading blanks skipped, an optional
\* sign, then the longest run of digits; NaN when there is none
parseInt(v) ==
  LET t == TrimLeft(String(v))
      signed == t # << >> /\ Head(t) \in {"-", "+"}
      ds == DigitPrefix(IF signed THEN Tail(t) ELSE t)
  IN IF ds = << >> THEN NaN
     ELSE IF signed /\ Head(t) = "-" THEN Num(0 - DigitsToInt(ds))
     ELSE Num(DigitsToInt(ds))

\* Array.prototype.slice(0, end): NaN counts as 0, a negative end counts
\* from the end of the array
Slice(xs, end) ==
  LET n == IF end = NaN THEN 0
           ELSE IF end[2] < 0 THEN (IF Len(xs) + end[2] < 0 THEN 0
                                    ELSE Len(xs) + end[2])
           ELSE IF end[2] > Len(xs) THEN Len(xs) ELSE end[2]
  IN SubSeq(xs, 1, n)

\* const key = sale.dishId || sale.dishName
DishKey(sale) == Or(sale.dishId, sale.dishName)

\* dishMap after the loop: the entries in insertion order
RECURSIVE DishMap(_)
DishMap(rows) ==
  IF rows = << >> THEN << >>
  ELSE LET m == DishMap(SubSeq(rows, 1, Len(rows) - 1))
           sale == rows[Len(rows)]
           at == IndexOf(m, "key", DishKey(sale))
       IN IF at = 0
          THEN Append(m, [key |-> DishKey(sale), dishId |-> sale.dishId,
                          dishName |-> sale.dishName,
                          category |-> sale.dishCategory,
                          quantity |-> sale.quantity, amount |-> sale.amount])
          ELSE [m EXCEPT ![at].quantity = @ + sale.quantity,
                         ![at].amount = @ + sale.amount]

\* Array.from(dishMap.values()).sort(...).slice(0, parseInt(limit))
TopItems(rows, limit) ==
  LET m == DishMap(rows)
      values == [i \in 1..Len(m) |->
                   [dishId |-> m[i].dishId, dishName |-> m[i].dishName,
                    category |-> m[i].category, quantity |-> m[i].quantity,
                    amount |-> m[i].amount]]
  IN Slice(SortDesc(values, "amount"), parseInt(limit))

\* the limit query parameter: absent, or a string
LimitInputs ==
  {Undefined, Str(<<"1">>), Str(<<"2">>), Str(<<"-", "1">>), Str(<<"x">>)}

\* const { dateFrom, dateTo, limit = '10' } = req.query; 400 without dates
TopStart(df, dt, limit) ==
  /\ top.pc = "idle"
  /\ top' = IF DatesMissing(df, dt)
            THEN [IdleTop EXCEPT !.pc = "done", !.dateFrom = df, !.dateTo = dt,
                                 !.status = 400]
            ELSE [IdleTop EXCEPT !.pc = "find", !.dateFrom = df, !.dateTo = dt,
                                 !.limit = IF limit = Undefined
                                           THEN Str(<<"1", "0">>) ELSE limit]
  /\ UNCHANGED <<body, report, mapped, rev, xml, daily>>
  /\ UNCHANGED <<syncVars, sessVars>>

\* await prisma.iikoSale.findMany, the grouping, res.json(topItems); or the
\* catch: 500
TopFind(ok) ==
  /\ top.pc = "find"
  /\ IF ok
     THEN \E rows \in FindMany(sales, Val(top.dateFrom), Val(top.dateTo), tz) :
            top' = [top EXCEPT !.pc = "done", !.status = 200, !.sales = rows,
                               !.json = Some(TopItems(rows, top.limit))]
     ELSE top' = [top EXCEPT !.pc = "done", !.status = 500]
  /\ UNCHANGED <<body, report, mapped, rev, xml, daily>>
  /\ UNCHANGED <<syncVars, sessVars>>

\* The lines earlier syncs stored, all of day 1: two lines of dish id 'a',
\* a line of a dish that has no id and the name 'b', a line of the dish with
\* id 'b' and another name, and a line of a dish with no id and the name 'c'.
MenuLines ==
  << [id |-> <<"a">>, day |-> 1, ms |-> 10 * HOUR, gross |-> 1000,
      discount |-> 100, quantity |-> 2, order |-> 101, dish |-> <<"x">>,
      category |-> <<"B", "A", "R">>],
     [id |-> <<"a">>, day |-> 1, ms |-> 11 * HOUR, gross |-> 500,
      discount |-> 0, quantity |-> 1, order |-> 102, dish |-> <<"x">>,
      category |-> <<"B", "A", "R">>],
     [id |-> << >>, day |-> 1, ms |-> 12 * HOUR, gross |-> 300,
      discount |-> 0, quantity |-> 1, order |-> 102, dish |-> <<"b">>,
      category |-> <<"K">>],
     [id |-> <<"b">>, day |-> 1, ms |-> 13 * HOUR, gross |-> 1600,
      discount |-> 0, quantity |-> 4, order |-> 103, dish |-> <<"y">>,
      category |-> <<"K">>],
     [id |-> << >>, day |-> 1, ms |-> 14 * HOUR, gross |-> 200,
      discount |-> 0, quantity |-> 1, order |-> 103, dish |-> <<"c">>,
      category |-> << >>] >>

MenuResponse(held) ==
  LET idx == [i \in 1..Len(MenuLines) |-> i]
      hit == SelectSeq(idx, LAMBDA i : i \in held)
  IN [data |-> Arr([i \in 1..Len(hit) |->
                     [PivotRow(MenuLines[hit[i]])
                        EXCEPT !.DishId = Str(MenuLines[hit[i]].id)]])]

TopInit ==
  /\ tz \in TzOffsets
  /\ pos = {}
  /\ settings = StoredSettings
  /\ \E held \in SUBSET (1..Len(MenuLines)) :
       sales = CreateMany(EmptyBag, ParseOlapResponse(MenuResponse(held)).data, tz)
  /\ sync = [r \in Reqs |-> IdleSync]
  /\ save = [s \in Savers |-> IdleSave]
  /\ started = 0
  /\ saves = 0
  /\ lastRun = None
  /\ SessionIdle
  /\ PureIdle

TopNext ==
  \/ \E df, dt \in DateInputs, limit \in LimitInputs : TopStart(df, dt, limit)
  \/ \E ok \in BOOLEAN : TopFind(ok)

TopSpec == TopInit /\ [][TopNext]_vars

\* ----- a report parsed, stored and aggregated -------------------------------
\* if (report.data.length > 0) await prisma.iikoSale.createMany({ data }),
\* into an empty table; Prisma rejects the batch when a date is invalid
StoreMapped ==
  /\ mapped # None
  /\ Val(mapped) # << >>
  /\ sales = EmptyBag
  /\ Storable(Val(report).data, tz)
  /\ sales' = SeqToBag(Val(mapped))
  /\ UNCHANGED <<tz, pos, settings, sync, save, started, saves, lastRun>>
  /\ UNCHANGED <<sessVars, pureVars>>

RoundTripNext ==
  \/ Parse
  \/ MapItems
  \/ StoreMapped
  \/ \E df, dt \in DateInputs : RevenueStart(df, dt)
  \/ \E ok \in BOOLEAN : RevenueFind(ok)

RoundTripSpec == ParserInit /\ [][RoundTripNext]_vars

\* ----- the XML daily report --------------------------------------------------
\* The body is tag soup: a sequence of opening tags, closing tags and runs of
\* text between tags (a run is not empty and holds no '<').  Tag names are
\* spelled as the report spells them; numbers are written without a fraction.
Open(name) == <<"<", name>>
Close(name) == <<"</", name>>
Text(cs) == <<"text", cs>>
IsText(tok) == tok[1] = "text"

\* topItems: .slice(0, 20); items: items.slice(0, 50)
TopItemsCap == 20
ItemsCap == 50

\* the index of the first tok at or after i, 0 when there is none
RECURSIVE Find(_, _, _)
Find(toks, i, tok) ==
  IF i > Len(toks) THEN 0
  ELSE IF toks[i] = tok THEN i
  ELSE Find(toks, i + 1, tok)

\* while ((match = /<data>([\s\S]*?)<\/data>/gi.exec(xml)) !== null):
\* match[1] of every match from position i on
RECURSIVE DataBlocks(_, _)
DataBlocks(toks, i) ==
  LET o == Find(toks, i, Open("data"))
      c == IF o = 0 THEN 0 ELSE Find(toks, o + 1, Close("data"))
  IN IF c = 0 THEN << >>
     ELSE <<SubSeq(toks, o + 1, c - 1)>> \o DataBlocks(toks, c + 1)

\* getField: dataBlock.match(/<name>([^<]*)<\/name>/i), group 1 of the first
\* match, '' when there is none
RECURSIVE GetField(_, _, _)
GetField(block, k, name) ==
  IF k >= Len(block) THEN << >>
  ELSE IF block[k] = Open(name) /\ block[k + 1] = Close(name) THEN << >>
  ELSE IF /\ block[k] = Open(name)
          /\ k + 2 <= Len(block)
          /\ IsText(block[k + 1])
          /\ block[k + 2] = Close(name)
  THEN block[k + 1][2]
  ELSE GetField(block, k + 1, name)

\* the item a block gives: parseFloat(getField(...)) || 0 for the measures
DailyItem(block) ==
  [ date |-> Str(GetField(block, 1, "OpenDate.Typed")),
    category |-> Str(GetField(block, 1, "DishCategory")),
    dishName |-> Str(GetField(block, 1, "DishName")),
    paymentType |-> Str(GetField(block, 1, "PayTypes")),
    amount |-> Or(parseFloat(Str(GetField(block, 1, "DishDiscountSumInt"))),
                  Num(0))[2],
    quantity |-> Or(parseFloat(Str(GetField(block, 1, "DishAmountInt"))),
                    Num(0))[2] ]

\* if (dishName) items.push(...)
DailyItems(toks) ==
  LET blocks == DataBlocks(toks, 1)
      all == [i \in 1..Len(blocks) |-> DailyItem(blocks[i])]
  IN SelectSeq(all, LAMBDA item : Truthy(item.dishName))

\* dishSummary after the loop: the entries in insertion order; the category
\* is the one of the dish's last item
RECURSIVE DishSummary(_)
DishSummary(items) ==
  IF items = << >> THEN << >>
  ELSE LET m == DishSummary(SubSeq(items, 1, Len(items) - 1))
           item == items[Len(items)]
           at == IndexOf(m, "dishName", item.dishName)
       IN IF at = 0
          THEN Append(m, [dishName |-> item.dishName,
                          category |-> item.category,
                          quantity |-> item.quantity, amount |-> item.amount])
          ELSE [m EXCEPT ![at].category = item.category,
                         ![at].quantity = @ + item.quantity,
                         ![at].amount = @ + item.amount]

ParseDailyReportXml(toks) ==
  LET items == DailyItems(toks)
  IN [ success |-> TRUE,
       itemCount |-> Len(items),
       summary |-> [totalAmount |-> Reduce(items, "amount"),
                    totalQuantity |-> Reduce(items, "quantity")],
       topItems |-> Slice(SortDesc(DishSummary(items), "amount"),
                          Num(TopItemsCap)),
       items |-> Slice(items, Num(ItemsCap)) ]

\* getDailyReport once the response is in:
\* if (xmlData?.includes('<data>')) return this.parseDailyReportXml(xmlData)
\* else return { success: false, error: '...' }
DailyReportResult(toks) ==
  IF Find(toks, 1, Open("data")) # 0
  THEN ParseDailyReportXml(toks)
  ELSE [success |-> FALSE,
        error |-> "Report did not return expected XML format"]

\* the response arrives and getDailyReport returns
DailyReportReturn ==
  /\ daily = None
  /\ daily' = Some(DailyReportResult(xml))
  /\ UNCHANGED <<body, report, mapped, rev, top, xml>>
  /\ UNCHANGED <<syncVars, sessVars>>

\* Bodies: every sequence of up to two of these blocks,
SampleBlocks ==
  { <<Open("OpenDate.Typed"), Text(<<"d">>), Close("OpenDate.Typed"),
      Open("DishCategory"), Text(<<"B">>), Close("DishCategory"),
      Open("DishName"), Text(<<"A">>), Close("DishName"),
      Open("PayTypes"), Text(<<"C">>), Close("PayTypes"),
      Open("DishDiscountSumInt"), Text(<<"6", "3", "8">>),
      Close("DishDiscountSumInt"),
      Open("DishAmountInt"), Text(<<"6">>), Close("DishAmountInt")>>,
    <<Open("DishName"), Text(<<"A">>), Close("DishName")>>,
    <<Open("DishName"), Text(<<"Z">>), Close("DishName"),
      Open("DishDiscountSumInt"), Text(<<"x">>), Close("DishDiscountSumInt"),
      Open("DishAmountInt"), Close("DishAmountInt")>>,
    <<Open("DishName"), Close("DishName"),
      Open("DishDiscountSumInt"), Text(<<"5">>), Close("DishDiscountSumInt")>>,
    <<Open("DishDiscountSumInt"), Text(<<"7">>), Close("DishDiscountSumInt"),
      Open("DishAmountInt"), Text(<<"1">>), Close("DishAmountInt")>> }

RECURSIVE Wrap(_)
Wrap(blocks) ==
  IF blocks = << >> THEN << >>
  ELSE <<Open("data")>> \o Head(blocks) \o <<Close("data")>> \o Wrap(Tail(blocks))

\* bodies of n blocks over k dishes, dish j sold for j + 1 each time,
GeneratedBlock(i, k) ==
  <<Open("DishName"), Text(IntToDigits(i % k)), Close("DishName"),
    Open("DishDiscountSumInt"), Text(IntToDigits((i % k) + 1)),
    Close("DishDiscountSumInt"),
    Open("DishAmountInt"), Text(<<"1">>), Close("DishAmountInt")>>

Generated(n, k) ==
  <<Open("report")>> \o Wrap([i \in 1..n |-> GeneratedBlock(i, k)])
    \o <<Close("report")>>

\* and bodies without a complete block: an empty body, an error page, and a
\* block that is not closed.
XmlInputs ==
  { <<Open("report")>> \o Wrap(bs) \o <<Close("report")>> :
      bs \in UNION { [1..n -> SampleBlocks] : n \in 0..2 } }
  \cup { Generated(n, k) : n \in 0..MaxBlocks, k \in {1, 3, TopItemsCap + 2} }
  \cup { << >>,
         <<Open("html"), Text(<<"e">>), Close("html")>>,
         <<Open("data"), Open("DishName"), Text(<<"A">>), Close("DishName")>> }

XmlInit ==
  /\ tz = 0
  /\ pos = {}
  /\ settings = << >>
  /\ sales = EmptyBag
  /\ sync = [r \in Reqs |-> IdleSync]
  /\ save = [s \in Savers |-> IdleSave]
  /\ started = 0
  /\ saves = 0
  /\ lastRun = None
  /\ SessionIdle
  /\ body = None
  /\ report = None
  /\ mapped = None
  /\ rev = IdleRevenue
  /\ top = IdleTop
  /\ xml \in XmlInputs
  /\ daily = None

XmlNext == DailyReportReturn

XmlSpec == XmlInit /\ [][XmlNext]_vars

\* ----- calls on one IikoService instance -----------------------------------
\* One client calls authenticate() and logout() on the instance, one call at
\* a time; the clock advances while a request to the POS server is pending.
\* ret records the completed call: the instance, the clock and the number of
\* logins sent when it was made, and what it returned.
NoCall == [op |-> "none"]

Returned(op, before, t0, sent, r, netOk, upstream) ==
  [ op |-> op, before |-> before, t0 |-> t0, net |-> r.net,
    netOk |-> netOk, upstream |-> upstream, raised |-> r.raised,
    sent |-> sent,
    value |-> IF op = "authenticate" THEN r.value ELSE None,
    error |-> IF op = "authenticate" THEN r.error ELSE None,
    afterFail |-> ret.op = "authenticate" /\ ret.raised ]

\* authenticate() that finds a valid cached token returns at once
InstAuthCached ==
  /\ call = NoCall
  /\ TokenValid(inst, now)
  /\ LET a == Authenticate(inst, now, now, CHOOSE o \in LoginOutcomes(now) : TRUE)
     IN /\ inst' = a.svc
        /\ ret' = Returned("authenticate", inst, now, logins, a, TRUE, None)
  /\ UNCHANGED <<now, call, logins>>
  /\ UNCHANGED <<syncVars, pureVars>>

\* authenticate() without one sends the login request
InstAuthCall ==
  /\ call = NoCall
  /\ ~TokenValid(inst, now)
  /\ logins < MaxLogins
  /\ call' = [op |-> "authenticate", t0 |-> now, sent |-> logins]
  /\ logins' = logins + 1
  /\ UNCHANGED <<now, inst, ret>>
  /\ UNCHANGED <<syncVars, pureVars>>

\* the login request completes
InstAuthReturn ==
  /\ call.op = "authenticate"
  /\ \E o \in LoginOutcomes(now) :
     LET a == Authenticate(inst, call.t0, now, o)
     IN /\ inst' = a.svc
        /\ ret' = Returned("authenticate", inst, call.t0, call.sent, a, o.ok, o.error)
  /\ call' = NoCall
  /\ UNCHANGED <<now, logins>>
  /\ UNCHANGED <<syncVars, pureVars>>

\* logout() with no token returns at once
InstLogoutSkip ==
  /\ call = NoCall
  /\ LogoutSkips(inst)
  /\ LET l == Logout(inst, TRUE)
     IN /\ inst' = l.svc
        /\ ret' = Returned("logout", inst, now, logins, l, TRUE, None)
  /\ UNCHANGED <<now, call, logins>>
  /\ UNCHANGED <<syncVars, pureVars>>

\* logout() with a token sends the logout request
InstLogoutCall ==
  /\ call = NoCall
  /\ ~LogoutSkips(inst)
  /\ call' = [op |-> "logout", t0 |-> now, sent |-> logins]
  /\ UNCHANGED <<now, inst, ret, logins>>
  /\ UNCHANGED <<syncVars, pureVars>>

\* the logout request completes or fails; the finally block runs
InstLogoutReturn(netOk) ==
  /\ call.op = "logout"
  /\ LET l == Logout(inst, netOk)
     IN /\ inst' = l.svc
        /\ ret' = Returned("logout", inst, call.t0, call.sent, l, netOk, None)
  /\ call' = NoCall
  /\ UNCHANGED <<now, logins>>
  /\ UNCHANGED <<syncVars, pureVars>>

\* testConnection(): try { await this.authenticate(); await this.logout();
\* return { success: true, ... } } catch (error) { return { success: false,
\* message } }
ConnectedMessage == "Successfully connected to iiko server"

\* a probe that returns without calling logout()
TestConnected_NoLogout(s, netOk) ==
  [svc |-> s, net |-> FALSE, success |-> TRUE, message |-> ConnectedMessage]

\* the try block after authenticate() has returned
TestConnected(s, netOk) ==
  [svc |-> Logout(s, netOk).svc, net |-> Logout(s, netOk).net,
   success |-> TRUE, message |-> ConnectedMessage]

\* the catch block: error instanceof Error ? error.message : 'Unknown error'
TestFailed(a) ==
  [svc |-> a.svc, net |-> FALSE, success |-> FALSE, message |-> Val(a.error)]

Probed(before, t0, sent, r, loginSent, upstream) ==
  [ op |-> "testConnection", before |-> before, t0 |-> t0, sent |-> sent,
    raised |-> FALSE, success |-> r.success, message |-> r.message,
    loginSent |-> loginSent, logoutSent |-> r.net, upstream |-> upstream ]

\* testConnection() that finds a valid cached token goes on to logout()
InstTestCached ==
  /\ call = NoCall
  /\ TokenValid(inst, now)
  /\ LET a == Authenticate(inst, now, now, CHOOSE o \in LoginOutcomes(now) : TRUE)
     IN /\ inst' = a.svc
        /\ call' = [op |-> "testConnection", stage |-> "logout", t0 |-> now,
                    sent |-> logins, before |-> inst, loginSent |-> FALSE]
  /\ UNCHANGED <<now, ret, logins>>
  /\ UNCHANGED <<syncVars, pureVars>>

\* testConnection() without one sends the login request
InstTestCall ==
  /\ call = NoCall
  /\ ~TokenValid(inst, now)
  /\ logins < MaxLogins
  /\ call' = [op |-> "testConnection", stage |-> "login", t0 |-> now,
              sent |-> logins, before |-> inst, loginSent |-> TRUE]
  /\ logins' = logins + 1
  /\ UNCHANGED <<now, inst, ret>>
  /\ UNCHANGED <<syncVars, pureVars>>

\* the login request of testConnection() completes: on to logout(), or the
\* catch block returns.  (ret describes the instance as the last completed
\* call left it; a login that changes the instance mid-call resets ret.)
InstTestLoginReturn ==
  /\ call.op = "testConnection"
  /\ call.stage = "login"
  /\ \E o \in LoginOutcomes(now) :
     LET a == Authenticate(inst, call.t0, now, o)
     IN /\ inst' = a.svc
        /\ IF a.raised
           THEN /\ ret' = Probed(call.before, call.t0, call.sent, TestFailed(a),
                                 TRUE, o.error)
                /\ call' = NoCall
           ELSE /\ call' = [call EXCEPT !.stage = "logout"]
                /\ ret' = [op |-> "none", raised |-> FALSE]
  /\ UNCHANGED <<now, logins>>
  /\ UNCHANGED <<syncVars, pureVars>>

\* the logout request of testConnection() completes or fails
InstTestLogoutReturn(netOk) ==
  /\ call.op = "testConnection"
  /\ call.stage = "logout"
  /\ LET r == TestConnected(inst, netOk)
     IN /\ inst' = r.svc
        /\ ret' = Probed(call.before, call.t0, call.sent, r, call.loginSent, None)
  /\ call' = NoCall
  /\ UNCHANGED <<now, logins>>
  /\ UNCHANGED <<syncVars, pureVars>>

\* getSalesReport(): const token = await this.authenticate(), then the
\* report request in a try whose catch rethrows
Fetched(before, t0, sent, o) ==
  [ op |-> "getSalesReport", before |-> before, t0 |-> t0, sent |-> sent,
    raised |-> ~o.ok,
    error |-> IF o.ok THEN None ELSE Some(FetchError(Val(o.error))) ]

\* getSalesReport() that finds a valid cached token sends the report request
InstReportCached ==
  /\ call = NoCall
  /\ TokenValid(inst, now)
  /\ call' = [op |-> "getSalesReport", stage |-> "fetch", t0 |-> now,
              sent |-> logins, before |-> inst]
  /\ UNCHANGED <<now, inst, ret, logins>>
  /\ UNCHANGED <<syncVars, pureVars>>

\* getSalesReport() without one sends the login request first
InstReportCall ==
  /\ call = NoCall
  /\ ~TokenValid(inst, now)
  /\ logins < MaxLogins
  /\ call' = [op |-> "getSalesReport", stage |-> "login", t0 |-> now,
              sent |-> logins, before |-> inst]
  /\ logins' = logins + 1
  /\ UNCHANGED <<now, inst, ret>>
  /\ UNCHANGED <<syncVars, pureVars>>

\* the login request of getSalesReport() completes: the report request is
\* sent, or the login error leaves getSalesReport
InstReportLoginReturn ==
  /\ call.op = "getSalesReport"
  /\ call.stage = "login"
  /\ \E o \in LoginOutcomes(now) :
     LET a == Authenticate(inst, call.t0, now, o)
     IN /\ inst' = a.svc
        /\ IF a.raised
           THEN /\ ret' = [op |-> "getSalesReport", before |-> call.before,
                           t0 |-> call.t0, sent |-> call.sent,
                           raised |-> TRUE, error |-> a.error]
                /\ call' = NoCall
           ELSE /\ call' = [call EXCEPT !.stage = "fetch"]
                /\ ret' = [op |-> "none", raised |-> FALSE]
  /\ UNCHANGED <<now, logins>>
  /\ UNCHANGED <<syncVars, pureVars>>

\* the report request completes or fails
InstReportFetchReturn ==
  /\ call.op = "getSalesReport"
  /\ call.stage = "fetch"
  /\ \E o \in FetchOutcomes :
       ret' = Fetched(call.before, call.t0, call.sent, o)
  /\ call' = NoCall
  /\ UNCHANGED <<now, inst, logins>>
  /\ UNCHANGED <<syncVars, pureVars>>

Tick ==
  /\ now < MaxNow
  /\ now' = now + 1
  /\ UNCHANGED <<inst, call, ret, logins>>
  /\ UNCHANGED <<syncVars, pureVars>>

SessionInit ==
  /\ tz = 0
  /\ pos = {}
  /\ settings = << >>
  /\ sales = EmptyBag
  /\ sync = [r \in Reqs |-> IdleSync]
  /\ save = [s \in Savers |-> IdleSave]
  /\ started = 0
  /\ saves = 0
  /\ lastRun = None
  /\ SessionIdle
  /\ PureIdle

SessionNext ==
  \/ InstAuthCached
  \/ InstAuthCall
  \/ InstAuthReturn
  \/ InstLogoutSkip
  \/ InstLogoutCall
  \/ \E netOk \in BOOLEAN : InstLogoutReturn(netOk)
  \/ InstTestCached
  \/ InstTestCall
  \/ InstTestLoginReturn
  \/ \E netOk \in BOOLEAN : InstTestLogoutReturn(netOk)
  \/ InstReportCached
  \/ InstReportCall
  \/ InstReportLoginReturn
  \/ InstReportFetchReturn
  \/ Tick

SessionSpec == SessionInit /\ [][SessionNext]_vars

\* ===== properties ============================================================
Done(r) == sync[r].pc = "done"

\* the sale's local calendar day lies in [dateFrom, dateTo]: from 00:00:00.000
\* of dateFrom to the last instant of dateTo
InTargetRange(row, df, dt, z) ==
  /\ row.openTime + z >= df * DAY
  /\ row.openTime + z < (dt + 1) * DAY

\* C1: a sync whose report fetch failed after the login has invoked logout
\* exactly once when the error is returned.
C1_LogoutOnceAfterFetchFailure ==
  \A r \in Reqs :
    Done(r) /\ sync[r].failedAt = "fetch" => sync[r].logoutCalls = 1

\* C2: a sync whose delete, insert or lastSyncAt update failed has attempted
\* logout, and no finished sync still holds a token.
C2_NoLeakedSession ==
  \A r \in Reqs :
    /\ Done(r) /\ sync[r].failedAt \in {"delete", "insert", "update"}
         => sync[r].logoutCalls >= 1
    /\ Done(r) => sync[r].svc.token = None

\* C3: authenticate called with a token cached and the clock before its
\* expiry returns that token and sends no login; called after the expiry
\* instant it sends one more login.
C3_CacheWindow ==
  ret.op = "authenticate" /\ ret.before.token # None
                          /\ ret.before.tokenExpiry # None =>
    /\ ret.t0 < Val(ret.before.tokenExpiry) =>
         /\ ~ret.net
         /\ ret.value = ret.before.token
         /\ call = NoCall => logins = ret.sent
    /\ ret.t0 > Val(ret.before.tokenExpiry) =>
         /\ ret.net
         /\ call = NoCall => logins = ret.sent + 1

C3_SecondCallInWindow ==
  /\ ret.op = "authenticate"
  /\ ret.before.token # None
  /\ ret.t0 + 1 = Val(ret.before.tokenExpiry)
  /\ ~ret.net
  /\ logins = 1

\* C4 as claimed: after a failed login the cached token is unset.
C4_TokenUnsetAfterFailure ==
  ret.op = "authenticate" /\ ret.raised => inst.token = None

\* C4 as amended: a failed login raises the error with the upstream detail and
\* leaves the cache as it was (unset, or still holding the expired token and
\* its expiry); the cache is then not valid, and the authenticate call that
\* follows the failure sends a login.
C4_FailureLeavesCache ==
  /\ ret.op = "authenticate" /\ ret.raised =>
       /\ ret.net /\ ~ret.netOk
       /\ inst = ret.before
       /\ ~(inst.token # None /\ now < Val(inst.tokenExpiry))
       /\ ret.error # None
       /\ Val(ret.error)[1] = "Failed to authenticate with iiko server: "
       /\ Val(ret.upstream).data # None =>
            Val(ret.error)[2] = Val(Val(ret.upstream).data)
       /\ Val(ret.upstream).data = None /\ Val(ret.upstream).message # "" =>
            Val(ret.error)[2] = Val(ret.upstream).message
  /\ ret.op = "authenticate" /\ ret.afterFail => ret.net

C4_RetryWithExpiredToken ==
  /\ ret.op = "authenticate"
  /\ ret.afterFail
  /\ ret.before.token # None
  /\ ret.net

\* C5: logout never raises, and when it has returned the token and its expiry
\* are both null, whether the logout request succeeded or failed.
C5_LogoutClears ==
  ret.op = "logout" =>
    /\ ~ret.raised
    /\ inst.token = None
    /\ inst.tokenExpiry = None

C5_LogoutRequestFailed ==
  /\ ret.op = "logout"
  /\ ret.before.token # None
  /\ ret.net
  /\ ~ret.netOk

\* C6: a sync that runs alone, over the same range and the same POS data as
\* the last successful sync and from the rows that sync left, leaves the same
\* rows once its delete and insert are done.
C6_RerunIdempotent ==
  \A r \in Reqs :
    sync[r].pc \in {"update", "logout"} /\ sync[r].solo /\ sync[r].rerun =>
      sales = Val(lastRun).rows

\* C7: a sync that ran alone and failed at login or at the report fetch leaves
\* the stored rows exactly as they were when it started.
C7_PreDeleteFailureKeepsRows ==
  \A r \in Reqs :
    Done(r) /\ sync[r].failedAt \in {"login", "fetch"} /\ sync[r].solo =>
      sales = sync[r].snap

C7_FetchFailedOverStoredRows ==
  \E r \in Reqs :
    /\ Done(r) /\ sync[r].failedAt = "fetch" /\ sync[r].solo
    /\ \E x \in DOMAIN sales :
         InDeleteRange(x, Val(sync[r].dateFrom), Val(sync[r].dateTo), tz)

\* C8: after a sync that ran alone and whose insert failed, no stored row has
\* its sale in [dateFrom, dateTo].
C8_RangeEmptyAfterInsertFailure ==
  \A r \in Reqs :
    Done(r) /\ sync[r].failedAt = "insert" /\ sync[r].solo =>
      \A x \in DOMAIN sales :
        ~InTargetRange(x, Val(sync[r].dateFrom), Val(sync[r].dateTo), tz)

\* C9: the delete step removes exactly the rows whose sale lies in
\* [dateFrom, dateTo], dateTo to the end of the day, and no other row.
C9_DeleteExactlyTargetRange ==
  [][\A r \in Reqs :
       sync[r].pc = "delete" /\ sync'[r].pc \in {"insert", "update"} =>
         sales' = [x \in {y \in DOMAIN sales :
                            ~InTargetRange(y, Val(sync[r].dateFrom),
                                           Val(sync[r].dateTo), tz)}
                     |-> sales[x]]]_vars

\* C10: a sync request without dateFrom or without dateTo ends at once with
\* status 400, has sent nothing to the POS server, and its step changes
\* neither the stored rows nor the settings.
C10_MissingDatesRejected ==
  [][\A r \in Reqs :
       /\ sync'[r] # sync[r]
       /\ sync'[r].pc # "idle"
       /\ sync'[r].dateFrom = None \/ sync'[r].dateTo = None
       => /\ sync'[r].pc = "done"
          /\ sync'[r].status = 400
          /\ sync'[r].failedAt = "validation"
          /\ sync'[r].posCalls = 0
          /\ sales' = sales
          /\ settings' = settings]_vars

C10_RejectedOverStoredData ==
  \E r \in Reqs :
    /\ Done(r) /\ sync[r].failedAt = "validation"
    /\ sync[r].dateFrom # None
    /\ settings # << >>
    /\ sales # EmptyBag

\* C11: a sync whose settings lookup finds no active record (the table is
\* empty or its record is inactive) ends at that step with status 400 and the
\* configuration error, having sent nothing to the POS server, and the step
\* leaves the stored rows as they are; a sync that ran alone and ended so
\* leaves the rows it found when it started.
C11_NoActiveSettingsRejected ==
  /\ [][\A r \in Reqs :
          /\ sync[r].pc = "settings"
          /\ sync'[r].pc # "settings"
          /\ sync'[r].failedAt # "settings"
          /\ \A i \in 1..Len(settings) : ~settings[i].isActive
          => /\ sync'[r].pc = "done"
             /\ sync'[r].status = 400
             /\ sync'[r].failedAt = "config"
             /\ sync'[r].posCalls = 0
             /\ sales' = sales]_vars
  /\ [](\A r \in Reqs :
          Done(r) /\ sync[r].failedAt = "config"
          => /\ sync[r].posCalls = 0
             /\ sync[r].logoutCalls = 0
             /\ \A i \in 1..Len(settings) : ~settings[i].isActive
             /\ sync[r].solo => sales = sync[r].snap)

C11_InactiveRecordOverStoredRows ==
  \E r \in Reqs :
    /\ Done(r) /\ sync[r].failedAt = "config"
    /\ settings # << >>
    /\ sales # EmptyBag

\* ----- readings of a pivot row ------------------------------------------------
\* the value under the first of the keys that the row has
RECURSIVE FirstPresent(_, _, _)
FirstPresent(row, keys, default) ==
  IF keys = << >> THEN default
  ELSE IF Head(keys) \in DOMAIN row THEN row[Head(keys)]
  ELSE FirstPresent(row, Tail(keys), default)

\* a measure as a number: 0 when the value does not parse
NumberOrZero(v) == IF parseFloat(v) = NaN THEN 0 ELSE parseFloat(v)[2]

RowGross(row) == NumberOrZero(FirstPresent(row, GrossKeys, Num(0)))
RowDiscount(row) == NumberOrZero(FirstPresent(row, DiscountKeys, Num(0)))
RowQuantity(row) == NumberOrZero(FirstPresent(row, QuantityKeys, Num(0)))

RECURSIVE SumInts(_)
SumInts(xs) == IF xs = << >> THEN 0 ELSE Head(xs) + SumInts(Tail(xs))

\* a sum of JavaScript numbers
RECURSIVE SumNums(_)
SumNums(xs) == IF xs = << >> THEN Num(0) ELSE Plus(Head(xs), SumNums(Tail(xs)))

Parsed == report # None
Rows == ResponseRows(body)
Items == Val(report).data
Summary == Val(report).summary

\* C12: for every row of the response the item's amount is the row's gross
\* minus its discount and its discountSum is the discount; totalAmount is the
\* sum of gross minus the sum of discount over all rows, and equals the sum
\* of the items' amounts.
C12_NetAmountForEveryRow ==
  Parsed =>
    /\ Len(Items) = Len(Rows)
    /\ \A i \in 1..Len(Rows) :
         /\ Items[i].amount = Num(RowGross(Rows[i]) - RowDiscount(Rows[i]))
         /\ Items[i].discountSum = Num(RowDiscount(Rows[i]))
    /\ Summary.totalAmount =
         Num(SumInts([i \in 1..Len(Rows) |-> RowGross(Rows[i])])
             - SumInts([i \in 1..Len(Rows) |-> RowDiscount(Rows[i])]))
    /\ Summary.totalAmount = SumNums([i \in 1..Len(Items) |-> Items[i].amount])

\* the row has the logical field under at most one of its keys
Unambiguous(row, keys) ==
  Cardinality({i \in 1..Len(keys) : keys[i] \in DOMAIN row}) <= 1

\* C14: a measure whose value does not parse as a number is 0 in the item and
\* adds 0 to the totals: each item's quantity, discountSum and amount, and
\* each total, is the number obtained with every unparsable value read as 0.
\* (Stated for rows that carry each measure under one key only.)
C14_UnparsableMeasureIsZero ==
  Parsed /\ (\A i \in 1..Len(Rows) :
               \A keys \in {GrossKeys, DiscountKeys, QuantityKeys} :
                 Unambiguous(Rows[i], keys))
  => /\ Len(Items) = Len(Rows)
     /\ \A i \in 1..Len(Rows) :
          /\ Items[i].quantity = Num(RowQuantity(Rows[i]))
          /\ Items[i].discountSum = Num(RowDiscount(Rows[i]))
          /\ Items[i].amount = Num(RowGross(Rows[i]) - RowDiscount(Rows[i]))
     /\ Summary.totalQuantity =
          Num(SumInts([i \in 1..Len(Rows) |-> RowQuantity(Rows[i])]))
     /\ Summary.totalDiscount =
          Num(SumInts([i \in 1..Len(Rows) |-> RowDiscount(Rows[i])]))
     /\ Summary.totalAmount =
          Num(SumInts([i \in 1..Len(Rows) |-> RowGross(Rows[i])])
              - SumInts([i \in 1..Len(Rows) |-> RowDiscount(Rows[i])]))

\* the dimension fields and the keys each is read from
DimensionKeys ==
  [ dishCode |-> DishCodeKeys, dishCategory |-> DishCategoryKeys,
    dishCategoryId |-> DishCategoryIdKeys, dishGroup |-> DishGroupKeys,
    dishGroupId |-> DishGroupIdKeys, departmentId |-> DepartmentIdKeys,
    departmentName |-> DepartmentNameKeys, orderNum |-> OrderNumKeys ]

Dimensions == DOMAIN DimensionKeys

\* the columns of IikoSale that sync fills with null
NullableColumns ==
  {"dishCode", "dishCategoryId", "dishGroup", "dishGroupId",
   "departmentId", "departmentName"}

\* the row has no value for the field: no key of it, or null under it
Missing(row, keys) ==
  \A i \in 1..Len(keys) : Get(row, keys[i]) \in {Undefined, Null}

Mapped == mapped # None
SaleRows == Val(mapped)

\* C15 as claimed: a dimension the row does not give is the empty string,
\* and no dimension is null, in the parsed item and in the row sync stores.
C15_DimensionsNeverNull ==
  /\ Parsed => \A i \in 1..Len(Rows) : \A f \in Dimensions :
        /\ Items[i][f] # Null
        /\ Missing(Rows[i], DimensionKeys[f]) => Items[i][f] = Str(<< >>)
  /\ Mapped => \A i \in 1..Len(Rows) : \A f \in Dimensions :
        /\ SaleRows[i][f] # Null
        /\ Missing(Rows[i], DimensionKeys[f]) => SaleRows[i][f] = Str(<< >>)

\* C15 as amended: in the parsed item a dimension the row does not give is
\* the empty string and no dimension is null; in the row sync stores,
\* category and order number are the empty string then and never null, while
\* dish code, category id, group, group id, department id and department
\* name are null then and never the empty string.
C15_DimensionDefaults ==
  /\ Parsed => \A i \in 1..Len(Rows) : \A f \in Dimensions :
        /\ Items[i][f] # Null
        /\ Missing(Rows[i], DimensionKeys[f]) => Items[i][f] = Str(<< >>)
  /\ Mapped => \A i \in 1..Len(Rows) :
        /\ \A f \in Dimensions \ NullableColumns :
             /\ SaleRows[i][f] # Null
             /\ Missing(Rows[i], DimensionKeys[f]) => SaleRows[i][f] = Str(<< >>)
        /\ \A f \in NullableColumns :
             /\ SaleRows[i][f] # Str(<< >>)
             /\ Missing(Rows[i], DimensionKeys[f]) => SaleRows[i][f] = Null

C15_RowWithoutDimensionsMapped ==
  /\ Mapped
  /\ \E i \in 1..Len(Rows) :
       /\ Missing(Rows[i], DishCodeKeys)
       /\ Missing(Rows[i], DishCategoryKeys)
       /\ RowGross(Rows[i]) > 0

\* a dimension as the row gives it: the value under the first key the row
\* has, the empty string when it has none or the value is null
RowDimension(row, keys) ==
  LET v == FirstPresent(row, keys, Undefined)
  IN IF v \in {Undefined, Null} THEN Str(<< >>) ELSE v

\* C16: every field of an item comes from the first of its keys that the row
\* has, in the parser's order; a later key only when the earlier ones are
\* absent, the default only when all are absent.
C16_FirstPresentAliasWins ==
  Parsed => \A i \in 1..Len(Rows) :
    /\ Items[i].quantity = parseFloat(FirstPresent(Rows[i], QuantityKeys, Num(0)))
    /\ Items[i].discountSum =
         parseFloat(FirstPresent(Rows[i], DiscountKeys, Num(0)))
    /\ Items[i].amount =
         Minus(parseFloat(FirstPresent(Rows[i], GrossKeys, Num(0))),
               parseFloat(FirstPresent(Rows[i], DiscountKeys, Num(0))))
    /\ Items[i].dishId = RowDimension(Rows[i], DishIdKeys)
    /\ Items[i].dishName = RowDimension(Rows[i], DishNameKeys)
    /\ Items[i].openTime = RowDimension(Rows[i], OpenTimeKeys)
    /\ \A f \in Dimensions : Items[i][f] = RowDimension(Rows[i], DimensionKeys[f])

EmptyReport ==
  [ data |-> << >>,
    summary |-> [totalAmount |-> Num(0), totalQuantity |-> Num(0),
                 totalDiscount |-> Num(0)] ]

\* C13: a response with an empty data array, or with neither a data nor a
\* rows key, parses to no items and totals 0; a sync that got such a report
\* never inserts, ends with status 200 and itemsImported 0 unless the delete
\* or the update failed, and, when it ran alone, leaves no stored row with
\* its sale in [dateFrom, dateTo] and adds none.
C13_EmptyBatchSync ==
  /\ ParseOlapResponse([data |-> Arr(<< >>)]) = EmptyReport
  /\ ParseOlapResponse([total |-> Num(0)]) = EmptyReport
  /\ \A r \in Reqs :
       sync[r].report # None /\ Val(sync[r].report).data = << >> =>
         /\ Val(sync[r].report) = EmptyReport
         /\ sync[r].pc # "insert" /\ sync[r].failedAt # "insert"
         /\ Done(r) /\ sync[r].failedAt \notin {"delete", "update"} =>
              sync[r].status = 200 /\ sync[r].itemsImported = Some(0)
         /\ Done(r) /\ sync[r].status = 200 /\ sync[r].solo =>
              /\ \A x \in DOMAIN sales :
                   ~InTargetRange(x, Val(sync[r].dateFrom),
                                  Val(sync[r].dateTo), tz)
              /\ sales \sqsubseteq sync[r].snap

\* ----- readings of a revenue response ----------------------------------------
Answered == rev.pc = "done" /\ rev.status = 200
Matched == rev.sales
Json == Val(rev.json)

\* the matched rows a predicate selects, and the sum of one column over them
OfCategory(c) == SelectSeq(Matched, LAMBDA row : row.dishCategory = c)
OnLocalDay(d) == SelectSeq(Matched, LAMBDA row : (row.openTime + tz) \div DAY = d)
Column(rows, field) == SumInts([i \in 1..Len(rows) |-> rows[i][field]])
Orders(rows) == {rows[i].orderNum : i \in 1..Len(rows)}

\* C17: in every answer of the revenue request orderCount is the number of
\* distinct order numbers among the matched rows; when it is positive
\* averageCheck is totalRevenue / orderCount (as fractions: averageCheck times
\* orderCount is totalRevenue), when it is zero averageCheck is 0; a request
\* that matches no row is answered, with orderCount 0 and averageCheck 0.
C17_AverageCheckPerOrder ==
  Answered =>
    /\ Json.totalRevenue = Column(Matched, "amount")
    /\ Json.orderCount = Cardinality(Orders(Matched))
    /\ Json.averageCheck.den > 0
    /\ Json.orderCount > 0 =>
         Json.averageCheck.num * Json.orderCount
           = Json.totalRevenue * Json.averageCheck.den
    /\ Json.orderCount = 0 => Json.averageCheck = [num |-> 0, den |-> 1]
    /\ Matched = << >> =>
         Json.orderCount = 0 /\ Json.averageCheck = [num |-> 0, den |-> 1]

\* an answer over three rows of two orders, two of them of the same order
C17_TwoLinesOfOneOrder ==
  /\ Answered
  /\ Len(Matched) = 3
  /\ Json.orderCount = 2
  /\ Json.averageCheck.num * 2 = Json.totalRevenue * Json.averageCheck.den

\* C18: in every answer byCategory has one entry for each category name among
\* the matched rows and no other entry, the blank name included; no two
\* entries share a name; an entry's amount and quantity are the sums over the
\* rows of its category; and amounts never increase along the list.
C18_OneEntryPerCategory ==
  Answered =>
    LET cats == Json.byCategory
    IN /\ {cats[i].category : i \in 1..Len(cats)}
            = {Matched[i].dishCategory : i \in 1..Len(Matched)}
       /\ \A i, j \in 1..Len(cats) :
            cats[i].category = cats[j].category => i = j
       /\ \A i \in 1..Len(cats) :
            /\ cats[i].amount = Column(OfCategory(cats[i].category), "amount")
            /\ cats[i].quantity = Column(OfCategory(cats[i].category), "quantity")
       /\ \A i, j \in 1..Len(cats) : i < j => cats[i].amount >= cats[j].amount

\* an answer over rows the query returned with the blank category first and
\* the category of the largest amount last: three entries, the largest first
\* and the blank one last
C18_BlankCategoryReturnedFirst ==
  /\ Answered
  /\ Len(Matched) = 4
  /\ Matched[1].dishCategory = Str(<< >>)
  /\ Matched[4].dishCategory = Str(<<"K">>)
  /\ Len(Json.byCategory) = 3
  /\ Json.byCategory[1].category = Str(<<"K">>)
  /\ Json.byCategory[3].category = Str(<< >>)
  /\ Json.byCategory[3].amount = 500

\* C19: in every answer each byCategory entry carries orderCount, the number
\* of distinct orders among the matched rows of its category, and
\* averageCheck, the entry's amount divided by that number.
C19_CategoryOrderCount ==
  Answered =>
    \A i \in 1..Len(Json.byCategory) :
      LET e == Json.byCategory[i]
          n == Cardinality(Orders(OfCategory(e.category)))
      IN /\ "orderCount" \in DOMAIN e
         /\ "averageCheck" \in DOMAIN e
         /\ e.orderCount = n
         /\ e.averageCheck.num * n = e.amount * e.averageCheck.den

\* C20: in every answer each matched row's local calendar day has a byDay
\* entry whose amount is the sum over the matched rows of that local day, and
\* byDay has no other entry.
C20_ByDayUsesLocalDay ==
  Answered =>
    /\ \A i \in 1..Len(Matched) :
         \E k \in 1..Len(Json.byDay) :
           /\ Json.byDay[k].date = (Matched[i].openTime + tz) \div DAY
           /\ Json.byDay[k].amount
                = Column(OnLocalDay(Json.byDay[k].date), "amount")
    /\ \A k \in 1..Len(Json.byDay) : OnLocalDay(Json.byDay[k].date) # << >>

\* C21: in every answer the byDay dates are exactly the days (as the response
\* names them: the UTC calendar day of openTime) of the matched rows, strictly
\* ascending; the byHour hours are exactly the local hours of the matched
\* rows, each in 0..23, strictly ascending; and the byDay amounts as well as
\* the byHour amounts add up to totalRevenue.
C21_DaysAndHoursAscending ==
  Answered =>
    LET days == Json.byDay
        hours == Json.byHour
    IN /\ {days[k].date : k \in 1..Len(days)}
            = {Matched[i].openTime \div DAY : i \in 1..Len(Matched)}
       /\ \A j, k \in 1..Len(days) : j < k => days[j].date < days[k].date
       /\ {hours[k].hour : k \in 1..Len(hours)}
            = {((Matched[i].openTime + tz) % DAY) \div HOUR : i \in 1..Len(Matched)}
       /\ \A k \in 1..Len(hours) : hours[k].hour \in 0..23
       /\ \A j, k \in 1..Len(hours) : j < k => hours[j].hour < hours[k].hour
       /\ Column(days, "amount") = Json.totalRevenue
       /\ Column(hours, "amount") = Json.totalRevenue

\* an answer over all four rows, returned latest first: two days, three hours
C21_RowsReturnedLatestFirst ==
  /\ Answered
  /\ Len(Matched) = 4
  /\ \A i \in 1..3 : Matched[i].openTime > Matched[i + 1].openTime
  /\ Len(Json.byDay) >= 2
  /\ Len(Json.byHour) = 3
  /\ Json.byDay[1].date < Json.byDay[2].date

\* ----- readings of a top-items response --------------------------------------
TopAnswered == top.pc = "done" /\ top.status = 200
TopMatched == top.sales
TopJson == Val(top.json)

\* the limit as a count, for the limits that are decimal naturals
CountLimits ==
  (Str(<<"1">>) :> 1) @@ (Str(<<"2">>) :> 2) @@ (Str(<<"1", "0">>) :> 10)

\* the dish of a line or of an entry: its id, or its name when the id is blank
Dish(x) ==
  IF x.dishId # Str(<< >>) THEN <<"id", x.dishId>> ELSE <<"name", x.dishName>>

OfDish(d) == SelectSeq(TopMatched, LAMBDA row : Dish(row) = d)

\* C22: in every answer to a request whose limit is a natural number the
\* entries are the first min(limit, number of dishes) groups by non-increasing
\* amount: each entry is the group of one dish among the matched rows (its
\* id, or its name when the id is blank) with the sums of quantity and amount
\* over exactly the rows of that dish, no two entries are of the same dish,
\* and no dish left out has a larger amount than an entry.
C22_TopItemsPerDish ==
  TopAnswered /\ top.limit \in DOMAIN CountLimits =>
    LET out == TopJson
        dishes == {Dish(TopMatched[i]) : i \in 1..Len(TopMatched)}
        n == CountLimits[top.limit]
    IN /\ Len(out) = IF n < Cardinality(dishes) THEN n ELSE Cardinality(dishes)
       /\ \A i \in 1..Len(out) :
            /\ Dish(out[i]) \in dishes
            /\ out[i].quantity = Column(OfDish(Dish(out[i])), "quantity")
            /\ out[i].amount = Column(OfDish(Dish(out[i])), "amount")
       /\ \A i, j \in 1..Len(out) : Dish(out[i]) = Dish(out[j]) => i = j
       /\ \A i, j \in 1..Len(out) : i < j => out[i].amount >= out[j].amount
       /\ \A d \in dishes :
            (\A i \in 1..Len(out) : Dish(out[i]) # d) =>
              \A i \in 1..Len(out) : out[i].amount >= Column(OfDish(d), "amount")

\* C23: when a response was parsed, its items stored into the empty table and
\* a revenue request then matched all of them, the byCategory amounts add up
\* to totalRevenue, which is the parser's summary.totalAmount, and the
\* byCategory quantities add up to summary.totalQuantity.
C23_RoundTripTotals ==
  /\ Answered
  /\ sales # EmptyBag
  /\ Len(Matched) = Len(Items)
  => /\ Column(Json.byCategory, "amount") = Json.totalRevenue
     /\ Num(Json.totalRevenue) = Summary.totalAmount
     /\ Num(Column(Json.byCategory, "quantity")) = Summary.totalQuantity

\* C24 as claimed: testConnection never raises; it reports success after a
\* login (or a valid cached token) followed by a logout call, and failure with
\* the error's message when the login fails; it leaves the settings and the
\* stored rows alone; and when it has returned no token is cached.
C24_ProbeLeavesNoToken ==
  ret.op = "testConnection" =>
    /\ ~ret.raised
    /\ ret.success => ret.message = ConnectedMessage
    /\ ~ret.success =>
         /\ ret.loginSent
         /\ ret.message = AuthError(Val(ret.upstream))
    /\ inst.token = None

\* C24 as amended: the same, except for the cache: after success the token
\* and its expiry are unset (logout was called with the token); after a
\* failed login the cache is as it was before the call, unset on a service
\* that held no token and still holding the expired token otherwise, and in
\* either case not valid.
C24_ProbeNeverRaises ==
  /\ [](ret.op = "testConnection" =>
         /\ ~ret.raised
         /\ ret.success =>
              /\ ret.message = ConnectedMessage
              /\ ret.logoutSent
              /\ inst.token = None
              /\ inst.tokenExpiry = None
         /\ ~ret.success =>
              /\ ret.loginSent
              /\ ret.message = AuthError(Val(ret.upstream))
              /\ inst = ret.before
              /\ ret.before.token = None => inst.token = None
              /\ inst.token # None => now >= Val(inst.tokenExpiry))
  /\ [][call.op = "testConnection" \/ call'.op = "testConnection"
          => settings' = settings /\ sales' = sales]_vars

\* a probe on a service that holds an expired token, whose login failed
C24_ProbeFailedWithExpiredToken ==
  /\ ret.op = "testConnection"
  /\ ~ret.success
  /\ ret.before.token # None
  /\ inst.token # None

\* C25: the settings table never holds more than one record; a save that
\* writes while a record exists leaves the number of records as it is and
\* sets the found record's URL, login, password hash and active flag; and a
\* save rejected for a missing URL, login or password leaves the table as
\* it is.
C25_AtMostOneSettingsRecord ==
  /\ [](Len(settings) <= 1)
  /\ [][\A s \in Savers :
          /\ save[s].pc = "write" /\ save'[s].pc = "done" /\ save'[s].status = 200
              /\ settings # << >>
              => /\ Len(settings') = Len(settings)
                 /\ \E i \in 1..Len(settings') :
                      /\ Some(settings'[i].serverUrl) = save[s].serverUrl
                      /\ Some(settings'[i].login) = save[s].login
                      /\ Some(settings'[i].passwordHash) = save[s].passwordHash
                      /\ settings'[i].isActive
          /\ save'[s].pc = "done" /\ save'[s].status = 400 /\ save[s] # save'[s]
              => settings' = settings]_vars

\* the number of items of a sync's batch that are stored as the row x
InBatch(r, x) ==
  Cardinality({i \in 1..Len(Val(sync[r].report).data) :
                 ToSaleRow(Val(sync[r].report).data[i], tz) = x})

\* C26: syncs are not serialized.  A sync that ran with no other sync in
\* flight has, once its delete and insert are done, left in the interval it
\* deleted exactly the rows of its batch, each as often as the batch has it:
\* executed one after the other, two syncs leave no row of the overlap
\* twice.  Interleaved they can: the state in which both have deleted and
\* then both have inserted, with a row of the overlap stored twice, is
\* reachable.
C26_SoloSyncLeavesItsBatch ==
  \A r \in Reqs :
    sync[r].pc \in {"update", "logout"} /\ sync[r].solo =>
      \A x \in DOMAIN sales :
        InDeleteRange(x, Val(sync[r].dateFrom), Val(sync[r].dateTo), tz) =>
          sales[x] = InBatch(r, x)

\* two syncs in flight, both past their delete and their insert, over a table
\* that was empty when each started: a row inside both deleted intervals is
\* stored twice although each batch has it once
C26_BothDeletedBeforeEitherInserted ==
  /\ \A r \in Reqs : /\ sync[r].pc \in {"update", "logout"}
                      /\ sync[r].snap = EmptyBag
  /\ \E x \in DOMAIN sales :
       /\ sales[x] = 2
       /\ \A r \in Reqs :
            /\ InDeleteRange(x, Val(sync[r].dateFrom), Val(sync[r].dateTo), tz)
            /\ InBatch(r, x) = 1

\* the rows the POS server answers a sync's report request with
Upstream(r) ==
  {i \in pos : /\ PosData[i].day >= Val(sync[r].dateFrom)
               /\ PosData[i].day <= Val(sync[r].dateTo)}

\* C27: a sync that answers 200 has issued, in this order and each once, the
\* login, the report request, the delete, the insert (left out exactly when
\* the report has no rows), the lastSyncAt update and the logout request; the
\* service's logout was called once and has cleared the token by the time of
\* the answer; and itemsImported is the number of rows of the upstream
\* response.  A sync that has not answered yet has issued a prefix of these.
C27_SuccessPathOrder ==
  \A r \in Reqs :
    LET all == <<"login", "report", "delete", "insert", "update", "logout">>
        bare == <<"login", "report", "delete", "update", "logout">>
        path == IF Upstream(r) = {} THEN bare ELSE all
    IN /\ Done(r) /\ sync[r].status = 200 =>
            /\ sync[r].steps = path
            /\ sync[r].logoutCalls = 1
            /\ sync[r].svc.token = None
            /\ sync[r].itemsImported = Some(Cardinality(Upstream(r)))
       /\ InFlight(r) =>
            /\ Len(sync[r].steps) < Len(path)
            /\ sync[r].steps = SubSeq(path, 1, Len(sync[r].steps))
            /\ sync[r].status = 0

\* a sync of a day with sales has answered 200 after all six steps
C27_SyncedWithInsert ==
  \E r \in Reqs :
    /\ Done(r)
    /\ sync[r].status = 200
    /\ Len(sync[r].steps) = 6
    /\ sync[r].itemsImported # Some(0)

\* ----- readings of a daily-report result ------------------------------------
\* the blocks of the body that have a dish name, each with its measures read
\* as numbers (0 when the tag is absent, empty or not a number)
Kept == DailyItems(xml)
DishNames == {Kept[i].dishName : i \in 1..Len(Kept)}
OfName(n) == SelectSeq(Kept, LAMBDA item : item.dishName = n)

\* C28: getDailyReport's result for a body is a success whatever tags the
\* blocks lack and also when the body has no block; itemCount and the
\* summary totals are over all blocks that have a dish name; items holds the
\* first 50 of them; topItems has one entry per dish name, with the sums over
\* that name's items, by non-increasing amount, cut at 20, no left-out dish
\* having a larger amount than an entry.
C28_DailyReportTolerant ==
  daily # None =>
    LET res == Val(daily)
    IN /\ res.success
       /\ res.itemCount = Len(Kept)
       /\ res.summary.totalAmount = Column(Kept, "amount")
       /\ res.summary.totalQuantity = Column(Kept, "quantity")
       /\ res.items = SubSeq(Kept, 1, IF Len(Kept) < 50 THEN Len(Kept) ELSE 50)
       /\ Len(res.topItems) = IF Cardinality(DishNames) < 20
                               THEN Cardinality(DishNames) ELSE 20
       /\ \A i \in 1..Len(res.topItems) :
            /\ res.topItems[i].dishName \in DishNames
            /\ res.topItems[i].amount
                 = Column(OfName(res.topItems[i].dishName), "amount")
            /\ res.topItems[i].quantity
                 = Column(OfName(res.topItems[i].dishName), "quantity")
       /\ \A i, j \in 1..Len(res.topItems) :
            /\ res.topItems[i].dishName = res.topItems[j].dishName => i = j
            /\ i < j => res.topItems[i].amount >= res.topItems[j].amount
       /\ \A n \in DishNames :
            (\A i \in 1..Len(res.topItems) : res.topItems[i].dishName # n) =>
              \A i \in 1..Len(res.topItems) :
                res.topItems[i].amount >= Column(OfName(n), "amount")

\* C29: on a service instance the token and its expiry are set together and
\* unset together in every state, whatever calls of authenticate, logout,
\* testConnection and getSalesReport came before and however their requests
\* ended; and logout called with no token cached sends nothing and leaves
\* the number of logins as it was.
C29_TokenAndExpiryTogether ==
  /\ (inst.token = None) <=> (inst.tokenExpiry = None)
  /\ ret.op = "logout" /\ ret.before.token = None =>
       /\ ~ret.net
       /\ inst = ret.before
       /\ call = NoCall => logins = ret.sent

\* logout called on an instance that holds no token, after a login was sent
C29_SecondLogoutSkipped ==
  /\ ret.op = "logout"
  /\ ret.before = NewService
  /\ ~ret.net
  /\ logins >= 1

\* C30: the lastSyncAt of a settings record changes only in the step in which
\* a sync's lastSyncAt update succeeds, and that sync has by then issued its
\* delete and, when its report has rows, its insert, none of which failed; no
\* step of a sync that answers 400 or 500 and no step of a save changes it.
C30_LastSyncOnlyAfterStore ==
  [][\A i \in 1..Len(settings) :
       settings'[i].lastSyncAt # settings[i].lastSyncAt =>
         \E r \in Reqs :
           /\ sync[r].pc = "update"
           /\ sync'[r].pc = "logout"
           /\ sync[r].settingsId = settings[i].id
           /\ sync[r].failedAt = ""
           /\ \E k \in 1..Len(sync[r].steps) : sync[r].steps[k] = "delete"
           /\ Upstream(r) # {} =>
                \E k \in 1..Len(sync[r].steps) : sync[r].steps[k] = "insert"
           /\ \A s \in Savers : save'[s] = save[s]]_vars

\* a sync whose insert failed after its delete, and a save that overwrote the
\* record, have both answered; lastSyncAt is still the minute of the earlier
\* sync
C30_InsertFailedAndSaved ==
  /\ \E r \in Reqs : Done(r) /\ sync[r].failedAt = "insert"
  /\ \E s \in Savers : save[s].pc = "done" /\ save[s].status = 200
  /\ Len(settings) = 1
  /\ settings[1].lastSyncAt = Some(1)

====
